---- MODULE Spec2Model ----
(***************************************************************************)
(* A model of the LLMlite programs: the retrying completion gateway        *)
(* (call_with_retries), the cached generation service (generate_response   *)
(* with its on-disk cache) and the agent loops.                            *)
(***************************************************************************)
EXTENDS Integers, Sequences, FiniteSets, TLC

(***************************************************************************)
(* Bounds of the model.                                                    *)
(***************************************************************************)
MaxTextLen == 1
MaxAttempts == 3
MaxBaseSleep == 2
MaxCalls == 2

(***************************************************************************)
(* Values.  A Python Optional[str] is a sequence of length 0 (None) or 1   *)
(* (the string); a string is a sequence of characters, of which only the   *)
(* line-ending characters CR and LF are told apart from ordinary ones.     *)
(***************************************************************************)
None == <<>>
Some(v) == <<v>>
IsNone(o) == Len(o) = 0
Val(o) == o[1]

Chars == {"a", "CR", "LF"}
Texts == UNION {[1..n -> Chars] : n \in 0..MaxTextLen}

Procs == {1, 2}
Requests == {"q1", "q2"}
Platforms == {"posix", "nt"}

RECURSIVE Pow2(_)
Pow2(n) == IF n <= 0 THEN 1 ELSE 2 * Pow2(n - 1)

RECURSIVE Count(_, _)
Count(seq, x) ==
    IF seq = <<>> THEN 0
    ELSE (IF Head(seq) = x THEN 1 ELSE 0) + Count(Tail(seq), x)

Last(seq) == seq[Len(seq)]

Max2(a, b) == IF a >= b THEN a ELSE b

VARIABLES
    scenario,      \* which family of runs is explored: "retry", "cache", "conc"
    platform,      \* the operating system's line-separator convention
    cache,         \* the cache directory: cache key -> Optional[file content]
    pc,            \* each process's position in generate_response / call_with_retries
    fn,            \* the function the process is running
    request,       \* the messages + options of the call
    cache_dir,     \* whether the call has a cache directory configured
    retries,       \* max_attempts / retries argument of the call
    base_sleep,    \* base_sleep argument of the call
    attempt,       \* the retry loop's attempt counter
    sleeps,        \* the arguments of time.sleep, in order, during the call
    hist,          \* the outcomes of the completion requests of the call, in order
    text,          \* raw_resp.choices[0].message.content of the successful request
    ret,           \* the value the call returned
    exc,           \* the exception the call raised
    ncalls,        \* number of calls the process has started
    prev,          \* summary of the process's previous call
    wcount         \* number of write_cache executions per cache key

genVars == <<scenario, platform, cache, pc, fn, request, cache_dir, retries,
             base_sleep, attempt, sleeps, hist, text, ret, exc, ncalls, prev,
             wcount>>

VARIABLES
    variant,        \* which program runs: an agent loop or a single-shot demo
    max_iterations, \* the iteration cap of the run
    iteration,      \* the loop counter (iterations / iteration in the sources)
    requests,       \* number of completion requests sent so far
    memory,         \* the conversation memory
    lpc,            \* position: "loop", "after" (left the loop), "done", "crashed"
    crash,          \* the exception that ended the program, if any
    output,         \* what the program reported, in order
    toolruns,       \* number of tool handlers executed so far
    responses,      \* the model's responses so far, in order
    rep,            \* earliest loop: the response the model repeats while it goes on
    verbose,        \* the verbose flag of the run
    sent            \* the message lists of the completion requests, in order

loopVars == <<variant, max_iterations, iteration, requests, memory, lpc, crash,
              output, toolruns, responses, rep, verbose, sent>>

VARIABLES
    reg_actions,    \* ActionRegistry.actions: action name -> Action
    reg_log,        \* the Actions passed to register, in order
    reg_got         \* the last get_action call: its name, its result, and the
                    \* number of register calls made before it

regVars == <<reg_actions, reg_log, reg_got>>

VARIABLES
    q_pc,           \* position of the quasi-agent program: "idle", "step",
                    \* "save", "done", "exit" (sys.exit), "raised"
    q_run,          \* number of runs of the program started so far
    q_description,  \* function_description of the current run
    q_mock,         \* the --mock flag of the current run
    q_cache_enabled,\* cache_enabled (not --no-cache) of the current run
    q_step,         \* number of generation steps finished in the current run
    q_messages,     \* the running conversation of the current run
    q_sent,         \* the message lists passed to generate_response, in order
    q_texts,        \* the text each finished step obtained, before extraction
    q_code,         \* initial_function, documented_function, test_cases
    q_calls,        \* completion requests made during the current run
    q_reads,        \* read_cache executions during the current run
    q_writes,       \* write_cache executions during the current run
    q_cache,        \* the cache directory: cache key -> Optional[file content]
    q_cache0,       \* the cache directory as it was when the current run began
    q_files,        \* the working directory: file name -> file content
    q_saved,        \* the (file name, content) the current run wrote, if any
    q_prev          \* summary of the previous run

qaVars == <<q_pc, q_run, q_description, q_mock, q_cache_enabled, q_step,
            q_messages, q_sent, q_texts, q_code, q_calls, q_reads, q_writes,
            q_cache, q_cache0, q_files, q_saved, q_prev>>

VARIABLES
    a_fn,           \* the function called
    a_args,         \* the arguments of the call, as the caller passed them
    a_pc,           \* "called", "returned" or "raised"
    a_result,       \* the value returned, or the name of the exception raised
    a_after         \* the caller's argument objects once the call is over

algoVars == <<a_fn, a_args, a_pc, a_result, a_after>>

VARIABLES
    m_script,       \* the script whose entry point runs
    m_task_flag,    \* whether --task was given on the command line
    m_mock,         \* whether --mock was given
    m_key,          \* whether an API key is configured
    m_phase,        \* what the process is doing, or "exited"
    m_steps,        \* number of phases the run has been through
    m_interrupted,  \* the phase in which a keyboard interrupt arrived, or "none"
    m_exit          \* "running", the exit status, or the unhandled exception

mainVars == <<m_script, m_task_flag, m_mock, m_key, m_phase, m_steps,
              m_interrupted, m_exit>>

vars == <<genVars, loopVars, regVars, qaVars, algoVars, mainVars>>

\* What the actions of each part of the model leave alone.
notGenVars == <<loopVars, regVars, qaVars, algoVars, mainVars>>
notLoopVars == <<genVars, regVars, qaVars, algoVars, mainVars>>
notRegVars == <<genVars, loopVars, qaVars, algoVars, mainVars>>
notQaVars == <<genVars, loopVars, regVars, algoVars, mainVars>>
notAlgoVars == <<genVars, loopVars, regVars, qaVars, mainVars>>
notMainVars == <<genVars, loopVars, regVars, qaVars, algoVars>>

(***************************************************************************)
(* Cache helpers of quasi_agent_improved.py / Quasi-Agent.py.              *)
(***************************************************************************)
\* make_cache_key: the SHA-256 digest of the canonical JSON of the request;
\* distinct requests give distinct digests.
make_cache_key(req) == <<"sha256", req>>

CacheKeys == {make_cache_key(q) : q \in Requests}

\* Text-mode encoding of Path.write_text (newline=None): every LF becomes the
\* platform's line separator.
RECURSIVE EncodeNewlines(_, _)
EncodeNewlines(s, plat) ==
    IF s = <<>> THEN <<>>
    ELSE IF Head(s) = "LF" /\ plat = "nt"
         THEN <<"CR", "LF">> \o EncodeNewlines(Tail(s), plat)
         ELSE <<Head(s)>> \o EncodeNewlines(Tail(s), plat)

\* Text-mode decoding of Path.read_text (newline=None, universal newlines):
\* CR LF and a lone CR both become LF.
RECURSIVE DecodeNewlines(_)
DecodeNewlines(b) ==
    IF b = <<>> THEN <<>>
    ELSE IF Head(b) = "CR"
         THEN IF Len(b) >= 2 /\ b[2] = "LF"
              THEN <<"LF">> \o DecodeNewlines(Tail(Tail(b)))
              ELSE <<"LF">> \o DecodeNewlines(Tail(b))
         ELSE <<Head(b)>> \o DecodeNewlines(Tail(b))

\* A lookup that takes an empty cached text for a miss ("if cached_value:").
read_cache_truthy(c, key) ==
    IF IsNone(c[key]) \/ Val(c[key]) = <<>>
    THEN None ELSE Some(DecodeNewlines(Val(c[key])))

\* read_cache: None when the file does not exist, else its decoded text.
read_cache(c, key) ==
    IF IsNone(c[key]) THEN None ELSE Some(DecodeNewlines(Val(c[key])))

\* A write that opens the file for appending instead of truncating it.
write_cache_append(c, key, value, plat) ==
    [c EXCEPT ![key] = IF IsNone(@) THEN Some(EncodeNewlines(value, plat))
                       ELSE Some(Val(@) \o <<"a">> \o EncodeNewlines(value, plat))]

\* write_cache: (over)write the file named by the key with the encoded text.
write_cache(c, key, value, plat) ==
    [c EXCEPT ![key] = Some(EncodeNewlines(value, plat))]

(***************************************************************************)
(* The retry loop shared by call_with_retries and generate_response.       *)
(***************************************************************************)
\* A backoff that doubles once too often: base_sleep * 2 ** attempt.
SleepSecondsOffByOne(base, att) == base * Pow2(att)

\* sleep_seconds = base_sleep * (2 ** (attempt - 1))
SleepSeconds(base, att) == base * Pow2(att - 1)

\* A cap compared with ">" instead of ">=".
ExhaustedStrict(att, max) == att > max

\* if attempt >= max_attempts: raise
Exhausted(att, max) == att >= max

\* A retrying except clause that catches every exception.
RetryableAny(kind) == kind \in {"rl", "err"}

\* The retrying except clause handles RateLimitError alone.
Retryable(kind) == kind = "rl"

NoCall == [request |-> "none", cache_dir |-> FALSE, returned |-> FALSE,
           ret |-> None, oks |-> 0]

Summary(p) ==
    [request |-> request[p], cache_dir |-> cache_dir[p],
     returned |-> pc[p] = "returned", ret |-> ret[p],
     oks |-> Count(hist[p], "ok")]

Fns == {"call_with_retries", "generate_response"}

\* The arguments explored in each family of runs.
RetryChoices ==
    IF scenario = "retry" THEN 0..MaxAttempts
    ELSE IF scenario = "cache" THEN {1, 2} ELSE {1}
BaseChoices  == IF scenario = "retry" THEN 1..MaxBaseSleep ELSE {1}
FnChoices    == IF scenario = "retry" THEN Fns ELSE {"generate_response"}
ReqChoices   == IF scenario = "conc" THEN {"q1"} ELSE Requests
DirChoices(f) ==
    IF f = "call_with_retries" THEN {FALSE}
    ELSE IF scenario = "conc" THEN {TRUE} ELSE BOOLEAN
Budget == IF scenario = "retry" THEN 1 ELSE MaxCalls
Active == IF scenario = "conc" THEN Procs ELSE {1}

\* Entry of a call up to the retry loop: the options record, the cache lookup
\* and the early return on a cache hit.
Begin(p, f, q, dir, r, b) ==
    /\ pc[p] \in {"idle", "returned", "raised"}
    /\ ncalls[p] < Budget
    /\ ncalls' = [ncalls EXCEPT ![p] = @ + 1]
    /\ prev' = [prev EXCEPT ![p] = IF pc[p] = "idle" THEN NoCall ELSE Summary(p)]
    /\ fn' = [fn EXCEPT ![p] = f]
    /\ request' = [request EXCEPT ![p] = q]
    /\ cache_dir' = [cache_dir EXCEPT ![p] = dir]
    /\ retries' = [retries EXCEPT ![p] = r]
    /\ base_sleep' = [base_sleep EXCEPT ![p] = b]
    /\ attempt' = [attempt EXCEPT ![p] = 0]
    /\ sleeps' = [sleeps EXCEPT ![p] = <<>>]
    /\ hist' = [hist EXCEPT ![p] = <<>>]
    /\ text' = [text EXCEPT ![p] = None]
    /\ exc' = [exc EXCEPT ![p] = "none"]
    /\ LET cached_value == IF dir THEN read_cache(cache, make_cache_key(q)) ELSE None
       IN  IF dir /\ ~IsNone(cached_value)
           THEN /\ pc' = [pc EXCEPT ![p] = "returned"]
                /\ ret' = [ret EXCEPT ![p] = cached_value]
           ELSE /\ pc' = [pc EXCEPT ![p] = "retry_loop"]
                /\ ret' = [ret EXCEPT ![p] = None]
    /\ UNCHANGED <<scenario, platform, cache, wcount>>

\* One turn of "while True": the completion request and what follows it.
\*   kind = "ok":  the request succeeded with the string `content` as its
\*                 message content
\*   kind = "rl":  it raised RateLimitError
\*   kind = "err": it raised another exception
Attempt(p, kind, content) ==
    /\ pc[p] = "retry_loop"
    /\ attempt' = [attempt EXCEPT ![p] = @ + 1]
    /\ hist' = [hist EXCEPT ![p] = Append(@, kind)]
    /\ IF kind = "ok"
       THEN /\ text' = [text EXCEPT ![p] = Some(content)]
            /\ IF cache_dir[p]
               THEN /\ pc' = [pc EXCEPT ![p] = "write_cache"]
                    /\ UNCHANGED ret
               ELSE /\ pc' = [pc EXCEPT ![p] = "returned"]
                    /\ ret' = [ret EXCEPT ![p] = Some(content)]
            /\ UNCHANGED <<sleeps, exc>>
       ELSE IF Retryable(kind)
       THEN /\ IF Exhausted(attempt'[p], retries[p])
               THEN /\ pc' = [pc EXCEPT ![p] = "raised"]
                    /\ exc' = [exc EXCEPT ![p] = "RateLimitError"]
                    /\ UNCHANGED sleeps
               ELSE /\ sleeps' = [sleeps EXCEPT ![p] =
                                    Append(@, SleepSeconds(base_sleep[p], attempt'[p]))]
                    /\ UNCHANGED <<pc, exc>>
            /\ UNCHANGED <<text, ret>>
       ELSE /\ pc' = [pc EXCEPT ![p] = "raised"]
            /\ exc' = [exc EXCEPT ![p] = "OtherError"]
            /\ UNCHANGED <<text, ret, sleeps>>
    /\ UNCHANGED <<scenario, platform, cache, fn, request, cache_dir, retries,
                   base_sleep, ncalls, prev, wcount>>

\* "if cache_dir and cache_key: write_cache(...)", then "return text".
Store(p) ==
    /\ pc[p] = "write_cache"
    /\ cache' = write_cache(cache, make_cache_key(request[p]), Val(text[p]), platform)
    /\ wcount' = [wcount EXCEPT ![make_cache_key(request[p])] = @ + 1]
    /\ pc' = [pc EXCEPT ![p] = "returned"]
    /\ ret' = [ret EXCEPT ![p] = text[p]]
    /\ UNCHANGED <<scenario, platform, fn, request, cache_dir, retries, base_sleep,
                   attempt, sleeps, hist, text, exc, ncalls, prev>>

StartCall ==
    /\ \E p \in Active, f \in FnChoices, q \in ReqChoices, r \in RetryChoices,
          b \in BaseChoices :
            \E dir \in DirChoices(f) : Begin(p, f, q, dir, r, b)
    /\ UNCHANGED notGenVars

CompletionSucceeds ==
    /\ \E p \in Active, content \in Texts : Attempt(p, "ok", content)
    /\ UNCHANGED notGenVars

CompletionRateLimited ==
    /\ \E p \in Active : Attempt(p, "rl", <<>>)
    /\ UNCHANGED notGenVars

CompletionFails ==
    /\ \E p \in Active : Attempt(p, "err", <<>>)
    /\ UNCHANGED notGenVars

WriteCache ==
    /\ \E p \in Active : Store(p)
    /\ UNCHANGED notGenVars

GenInit(sc) ==
    /\ scenario = sc
    /\ platform \in Platforms
    /\ cache = [k \in CacheKeys |-> None]
    /\ pc = [p \in Procs |-> "idle"]
    /\ fn = [p \in Procs |-> "generate_response"]
    /\ request = [p \in Procs |-> "q1"]
    /\ cache_dir = [p \in Procs |-> FALSE]
    /\ retries = [p \in Procs |-> 1]
    /\ base_sleep = [p \in Procs |-> 1]
    /\ attempt = [p \in Procs |-> 0]
    /\ sleeps = [p \in Procs |-> <<>>]
    /\ hist = [p \in Procs |-> <<>>]
    /\ text = [p \in Procs |-> None]
    /\ ret = [p \in Procs |-> None]
    /\ exc = [p \in Procs |-> "none"]
    /\ ncalls = [p \in Procs |-> 0]
    /\ prev = [p \in Procs |-> NoCall]
    /\ wcount = [k \in CacheKeys |-> 0]

GenNext ==
    \/ StartCall
    \/ CompletionSucceeds
    \/ CompletionRateLimited
    \/ CompletionFails
    \/ WriteCache

(***************************************************************************)
(* The agent loops and the single-shot function-calling demos.             *)
(*   "earliest"       AgentLoopWithFunctionCalling.py (and ...2.py)        *)
(*   "native"         agent_loop_with_function_calling_improved.py         *)
(*   "native2"        agent_loop_with_function_calling2_improved.py        *)
(*   "markdown"       agent_tools_improved.py                              *)
(*   "game"           a_sample_agent_framework_improved.py                 *)
(*   "demo"           llm_function_call.py                                 *)
(*   "demo_improved"  improved_llm_function.py                             *)
(***************************************************************************)
MaxIter == 2
MaxRequests == 11

\* max_iterations = 10 in the earliest loops.
EarliestMaxIterations == 10

LoopVariants == {"earliest", "native", "native2", "markdown", "game"}
DemoVariants == {"demo", "demo_improved"}
Variants == LoopVariants \cup DemoVariants

\* Termination messages, told apart by their text and their length in
\* characters.
Messages == {"m1", "m2", "m3"}
MessageLen(m) == IF m = "m1" THEN 5 ELSE IF m = "m2" THEN 150 ELSE 400
NoArg == "-"

\* The name of the path parameter of the file-reading tool.
PathKey(v) == IF v = "game" THEN "name" ELSE "file_name"

\* The decoded arguments of a tool call: a JSON object ("map") with its keys
\* and the values of the keys the tools look at, a JSON array ("list"), or a
\* string that is not JSON ("badjson").
Args(shape, keys, m, f) ==
    [shape |-> shape, keys |-> keys, message |-> m, path |-> f]

NoArgs == Args("map", {}, NoArg, NoArg)

ArgChoices(v) ==
    {NoArgs, Args("list", {}, NoArg, NoArg)}
    \cup {Args("map", {"message"}, m, NoArg) : m \in Messages}
    \cup {Args("map", {"message", "extra"}, "m1", NoArg)}
    \cup {Args("map", {PathKey(v)}, NoArg, "a.txt")}
    \cup (IF v = "markdown" THEN {} ELSE {Args("badjson", {}, NoArg, NoArg)})

\* The tools each program registers.
Registry(v) ==
    IF v = "earliest" THEN {"list_files", "read_file", "terminate"}
    ELSE IF v = "native"
    THEN {"list_files", "read_file", "search_files", "terminate"}
    ELSE IF v = "native2"
    THEN {"list_files", "read_file", "read_all_files", "search_files", "terminate"}
    ELSE IF v = "markdown"
    THEN {"list_files", "read_file", "write_file", "search_files"}
    ELSE IF v = "game"
    THEN {"list_project_files", "read_project_file", "terminate"}
    ELSE {"list_files", "read_file"}

\* The tool names the model is let to choose: the listing and the reading
\* tool of the program, terminate, a name no program registers and, in the
\* markdown loop, the pseudo-tool "error".
NameChoices(v) ==
    (IF v = "game" THEN {"list_project_files", "read_project_file"}
     ELSE {"list_files", "read_file"})
    \cup {"terminate", "no_such_tool"}
    \cup (IF v = "markdown" THEN {"error"} ELSE {})

\* Parameters without / with a default value of each tool's handler.
Required(v, name) ==
    IF name \in {"read_file", "read_project_file"} THEN {PathKey(v)}
    ELSE IF name = "terminate" THEN {"message"}
    ELSE {}

Optional(v, name) ==
    IF name = "list_files" /\ v \in {"native", "markdown"} THEN {"directory"}
    ELSE IF name = "list_files" /\ v = "native2" THEN {"path"}
    ELSE {}

\* handler(**args) binds: args is a mapping that gives every required
\* parameter and nothing the handler does not take.
BindOK(v, name, args) ==
    /\ args.shape = "map"
    /\ Required(v, name) \subseteq args.keys
    /\ args.keys \subseteq (Required(v, name) \cup Optional(v, name))

\* What the model answers to one completion request.
Resp(kind, name, args) == [kind |-> kind, name |-> name, args |-> args]

\* Markdown protocol: the responses whose action block is not a JSON object
\* holding "tool_name" and "args":
\*   "text"          no block, or a block that is not valid JSON
\*   "missing_keys"  a JSON object or array without one of the two keys
\*   "json_number"   a JSON number
\*   "json_string"   a JSON string whose text contains tool_name and args
\*                   (an action object encoded twice)
MalformedActionKinds == {"text", "missing_keys", "json_number", "json_string"}

\* The texts of the responses without a tool call; the GAME agent looks at
\* the text.
ResponseTexts(v) == IF v = "game" THEN {"t1", "t2"} ELSE {NoArg}

Responses(v) ==
    {Resp("llm_error", NoArg, NoArgs)}
    \cup {Resp("text", t, NoArgs) : t \in ResponseTexts(v)}
    \cup (IF v = "game"
          THEN {Resp("no_content", NoArg, NoArgs), Resp("json_value", NoArg, NoArgs),
                Resp("json_no_tool", NoArg, NoArgs)}
               \cup {Resp("json_no_args", n, NoArgs) : n \in NameChoices(v)}
          ELSE {})
    \cup {Resp("tool_call", n, a) : n \in NameChoices(v), a \in ArgChoices(v)}
    \cup (IF v = "markdown"
          THEN {Resp(k, NoArg, NoArgs) : k \in MalformedActionKinds}
          ELSE {})

\* Entries of the conversation memory.
Msg(role, kind, name, args, value) ==
    [role |-> role, kind |-> kind, name |-> name, args |-> args, value |-> value]

SystemMsg == Msg("system", "rules", NoArg, NoArgs, <<>>)
TaskMsg == Msg("user", "task", NoArg, NoArgs, <<>>)
ActionMsg(name, args) == Msg("assistant", "action", name, args, <<>>)
RawMsg(resp) == Msg("assistant", resp.kind, resp.name, resp.args, <<>>)
ResultMsg(role, kind, value) == Msg(role, kind, NoArg, NoArgs, value)

\* What the program reports (prints, or returns to its caller).
Event(ev, value) == [ev |-> ev, value |-> value]

\* The result of a tool dispatch: a result or an error dictionary, or an
\* exception that leaves the dispatcher ("raise").
Res(kind, value, terminated, ran) ==
    [kind |-> kind, value |-> value, terminated |-> terminated, ran |-> ran]

\* The value a handler returns.
ToolValue(name, args) ==
    IF name = "terminate" THEN <<"AGENT SUMMARY", args.message>>
    ELSE IF name \in {"read_file", "read_project_file"} THEN <<name, args.path>>
    ELSE <<name>>

\* The effect of one pass of a loop body (or of a single-shot demo):
\*   next: "continue", "break" (leave the loop), "return", "crash"
Out(next, exception, mem, out, ran) ==
    [next |-> next, exception |-> exception, mem |-> mem, out |-> out, ran |-> ran]

Crash(exception) == Out("crash", exception, <<>>, <<>>, 0)

\* ---- the earliest loops --------------------------------------------------
\* The body of "while iterations < max_iterations:".  Nothing in it changes
\* `iterations`.
EarliestIteration(resp) ==
    IF resp.kind = "llm_error" THEN Crash("CompletionError")
    ELSE IF resp.kind = "text"
    THEN Out("break", "none", <<>>, <<Event("response", <<>>)>>, 0)
    ELSE IF resp.args.shape = "badjson" THEN Crash("JSONDecodeError")
    ELSE IF resp.name = "terminate"
    THEN IF resp.args.shape # "map" THEN Crash("TypeError")
         ELSE IF "message" \notin resp.args.keys THEN Crash("KeyError")
         ELSE Out("break", "none", <<>>,
                  <<Event("terminated", <<resp.args.message>>)>>, 0)
    ELSE LET known == resp.name \in Registry("earliest")
             ok == known /\ BindOK("earliest", resp.name, resp.args)
             result ==
                 IF ok THEN ResultMsg("user", "result", ToolValue(resp.name, resp.args))
                 ELSE IF known
                 THEN ResultMsg("user", "error", <<"Error executing", resp.name>>)
                 ELSE ResultMsg("user", "error", <<"Unknown tool", resp.name>>)
         IN  Out("continue", "none",
                 <<ActionMsg(resp.name, resp.args), result>>,
                 <<Event(result.kind, result.value)>>,
                 IF ok THEN 1 ELSE 0)

\* A dispatcher without the membership test: the lookup of an unregistered
\* name raises KeyError.
execute_tool_native_no_membership_test(v, tool_name, tool_args) ==
    IF tool_name = "terminate"
    THEN IF BindOK(v, "terminate", tool_args)
         THEN Res("result", ToolValue("terminate", tool_args), TRUE, 1)
         ELSE Res("raise", <<"TypeError">>, FALSE, 0)
    ELSE IF tool_name \notin Registry(v)
    THEN Res("raise", <<"KeyError">>, FALSE, 0)
    ELSE IF BindOK(v, tool_name, tool_args)
    THEN Res("result", ToolValue(tool_name, tool_args), FALSE, 1)
    ELSE Res("error", <<"Invalid arguments for", tool_name>>, FALSE, 0)

\* ---- the improved native loops --------------------------------------------
\* execute_tool: terminate is called outside the try block.
execute_tool_native(v, tool_name, tool_args) ==
    IF tool_name = "terminate"
    THEN IF BindOK(v, "terminate", tool_args)
         THEN Res("result", ToolValue("terminate", tool_args), TRUE, 1)
         ELSE Res("raise", <<"TypeError">>, FALSE, 0)
    ELSE IF tool_name \notin Registry(v)
    THEN Res("error", <<"Unknown tool", tool_name>>, FALSE, 0)
    ELSE IF BindOK(v, tool_name, tool_args)
    THEN Res("result", ToolValue(tool_name, tool_args), FALSE, 1)
    ELSE Res("error", <<"Invalid arguments for", tool_name>>, FALSE, 0)

\* Display limits of string results: result_data[:300] in the first improved
\* loop, format_result_summary's 100 in the second.
TruncateLimit == 300
SummaryLimit == 100

\* len(result_data) of a string result; "AGENT SUMMARY:\n" has 15 characters.
AgentSummaryPrefixLen == 15
ResultLen(value) ==
    IF value[1] = "AGENT SUMMARY" THEN AgentSummaryPrefixLen + MessageLen(value[2])
    ELSE 1

\* What "Display result" prints for a result.
DisplayResult(v, value, verb) ==
    IF v = "native"
    THEN IF ResultLen(value) > TruncateLimit /\ ~verb
         THEN <<"truncated">> \o value
         ELSE value
    ELSE IF ResultLen(value) > SummaryLimit THEN <<"characters">> ELSE value

\* if result.get("terminated"):
NativeTerminated(result) == result.terminated

NativeIteration(v, resp, verb) ==
    IF resp.kind = "llm_error"
    THEN Out("break", "none", <<>>, <<Event("llm_error", <<>>)>>, 0)
    ELSE IF resp.kind = "text"
    THEN Out("break", "none", <<>>, <<Event("response", <<>>)>>, 0)
    ELSE IF resp.args.shape = "badjson" THEN Crash("JSONDecodeError")
    ELSE IF resp.args.shape = "list" THEN Crash("AttributeError")
    ELSE LET result == execute_tool_native(v, resp.name, resp.args)
             shown == IF result.kind = "error" THEN Event("error", result.value)
                      ELSE Event("result", DisplayResult(v, result.value, verb))
         IN  IF result.kind = "raise" THEN Crash(result.value[1])
             ELSE IF NativeTerminated(result)
             THEN Out("break", "none", <<>>,
                      <<shown, Event("completed", <<>>)>>, result.ran)
             ELSE Out("continue", "none",
                      <<ActionMsg(resp.name, resp.args),
                        ResultMsg("user", result.kind, result.value)>>,
                      <<shown>>, result.ran)

\* ---- the markdown-protocol loop -------------------------------------------
ErrorAction(m) == Resp("tool_call", "error", Args("map", {"message"}, m, NoArg))

\* parse_action: a response without a JSON action block becomes the
\* pseudo-tool "error"; so does one on which the tests
\* '"tool_name" not in action_json or "args" not in action_json' are true or
\* raise (a number).  On a JSON string the tests are substring tests: a string
\* that contains both words passes them and is returned as it is.
parse_action(resp) ==
    IF resp.kind = "text" THEN ErrorAction("Failed to parse action JSON")
    ELSE IF resp.kind = "missing_keys"
    THEN ErrorAction("Action must contain 'tool_name' and 'args' fields")
    ELSE IF resp.kind = "json_number"
    THEN ErrorAction("Error parsing action")
    ELSE resp

execute_tool_markdown(tool_name, args) ==
    IF tool_name = "terminate"
    THEN Res("result", <<"Agent terminated">>, TRUE, 0)
    ELSE IF tool_name = "error"
    THEN IF args.shape # "map" THEN Res("raise", <<"AttributeError">>, FALSE, 0)
         ELSE IF "message" \in args.keys
         THEN Res("error", <<args.message>>, FALSE, 0)
         ELSE Res("error", <<"Unknown error">>, FALSE, 0)
    ELSE IF tool_name \notin Registry("markdown")
    THEN Res("error", <<"Unknown tool", tool_name>>, FALSE, 0)
    ELSE IF BindOK("markdown", tool_name, args)
    THEN Res("result", ToolValue(tool_name, args), FALSE, 1)
    ELSE Res("error", <<"Invalid arguments for", tool_name>>, FALSE, 0)

\* The body of run_agent's loop after "iteration += 1"; `it` is the counter
\* after the increment.
MarkdownIteration(resp, it, max) ==
    IF resp.kind = "llm_error"
    THEN Out("return", "none", <<>>, <<Event("llm_error", <<>>)>>, 0)
    ELSE LET action == parse_action(resp)
             result == execute_tool_markdown(action.name, action.args)
             shown == Event(result.kind, result.value)
         IN  IF action.kind = "json_string" THEN Crash("TypeError")
             ELSE IF result.kind = "raise" THEN Crash(result.value[1])
             ELSE IF action.name = "terminate"
             THEN IF action.args.shape # "map" THEN Crash("AttributeError")
                  ELSE Out("return", "none", <<>>,
                           <<shown,
                             Event("terminated",
                                   IF "message" \in action.args.keys
                                   THEN <<action.args.message>>
                                   ELSE <<"Task completed">>)>>, 0)
             ELSE IF it >= max
             THEN Out("return", "none",
                      <<RawMsg(resp), ResultMsg("user", result.kind, result.value)>>,
                      <<shown, Event("exhausted", <<>>)>>, result.ran)
             ELSE Out("continue", "none",
                      <<RawMsg(resp), ResultMsg("user", result.kind, result.value)>>,
                      <<shown>>, result.ran)

\* ---- the GAME agent -------------------------------------------------------
\* The terminal flag of the actions create_file_agent registers.
Terminal(name) == name = "terminate"

\* What the agent's handlers return: terminate_agent gives
\* "SUMMARY:\n{message}".
GameToolValue(name, args) ==
    IF name = "terminate" THEN <<"SUMMARY", args.message>>
    ELSE ToolValue(name, args)

\* A fallback that carries a fixed message instead of the response text.
parse_response_fixed_message(resp) ==
    IF resp.kind = "text"
    THEN Resp("tool_call", "terminate", Args("map", {"message"}, "m1", NoArg))
    ELSE resp

\* AgentFunctionCallingLanguage.parse_response: json.loads of the response;
\* text that is not valid JSON falls back to a terminate invocation carrying
\* the text (for kind "text" the name field of a response holds the text).
\* A tool call reaches it as the JSON object generate_response serialised;
\* text that is valid JSON reaches it as that JSON value ("json_value").
parse_response(resp) ==
    IF resp.kind = "text"
    THEN Resp("tool_call", "terminate", Args("map", {"message"}, resp.name, NoArg))
    ELSE resp

\* Environment.execute_action: the handler's result, or an error result when
\* the call raises.
execute_action(name, args) ==
    IF BindOK("game", name, args)
    THEN ResultMsg("environment", "result", GameToolValue(name, args))
    ELSE ResultMsg("environment", "error", <<"Invalid arguments">>)

\* A memory update that stores the result before the response.
update_memory_result_first(resp, result) == <<result, RawMsg(resp)>>

\* Agent.update_memory: the assistant item, then the environment item.
update_memory(resp, result) == <<RawMsg(resp), result>>

\* Agent.should_terminate: the response resolves to an action whose terminal
\* flag is set.
should_terminate(invocation) ==
    invocation.name \in Registry("game") /\ Terminal(invocation.name)

\* A handler of generation errors that goes on to the next iteration.
on_generate_error_retry(resp) ==
    Out("continue", "none", <<>>, <<Event("llm_error", <<>>)>>, 0)

\* Agent.run: "except Exception as e: print(...); break" around
\* generate_response.
on_generate_error(resp) ==
    Out("break", "none", <<>>, <<Event("llm_error", <<>>)>>, 0)

\* A handling of unresolved names that feeds the error back and goes on, as
\* the native loops do.
on_unknown_action_feed_back(resp, invocation) ==
    Out("continue", "none",
        <<RawMsg(resp),
          ResultMsg("environment", "error", <<"Unknown action", invocation.name>>)>>,
        <<Event("error", <<"Unknown action", invocation.name>>)>>, 0)

\* Agent.run: "if action is None: print(Unknown action ...); break".
on_unknown_action(resp, invocation) ==
    Out("break", "none", <<>>,
        <<Event("error", <<"Unknown action", invocation.name>>)>>, 0)

\* Agent.run's loop body: generate_response, get_action, execute_action,
\* update_memory, should_terminate.  generate_response raises on a failed
\* completion and on tool-call arguments that are not JSON; a response
\* without content and without tool call is None, on which json.loads raises
\* TypeError; a JSON value that is not an invocation object makes
\* invocation["tool"] raise TypeError, a JSON object without "tool" makes it
\* raise KeyError, and one that names a registered tool without "args" makes
\* invocation["args"] raise KeyError.
GameIteration(resp) ==
    IF resp.kind = "llm_error" \/ (resp.kind = "tool_call" /\ resp.args.shape = "badjson")
    THEN on_generate_error(resp)
    ELSE IF resp.kind \in {"no_content", "json_value"} THEN Crash("TypeError")
    ELSE IF resp.kind = "json_no_tool" THEN Crash("KeyError")
    ELSE LET invocation == parse_response(resp)
             known == invocation.name \in Registry("game")
             result == execute_action(invocation.name, invocation.args)
             stop == should_terminate(invocation)
         IN  IF ~known THEN on_unknown_action(resp, invocation)
             ELSE IF resp.kind = "json_no_args" THEN Crash("KeyError")
             ELSE Out(IF stop THEN "break" ELSE "continue",
                      "none",
                      update_memory(resp, result),
                      <<Event(result.kind, result.value)>>
                          \o (IF stop THEN <<Event("completed", <<>>)>> ELSE <<>>),
                      IF result.kind = "result" THEN 1 ELSE 0)

\* ---- the single-shot demos ------------------------------------------------
\* llm_function_call.py: no statement of the script is inside a try block.
DemoRun(resp) ==
    IF resp.kind = "llm_error" THEN Crash("CompletionError")
    ELSE IF resp.kind = "text" THEN Crash("TypeError")
    ELSE IF resp.args.shape = "badjson" THEN Crash("JSONDecodeError")
    ELSE IF resp.name \notin Registry("demo") THEN Crash("KeyError")
    ELSE IF ~BindOK("demo", resp.name, resp.args) THEN Crash("TypeError")
    ELSE Out("return", "none", <<>>,
             <<Event("result", ToolValue(resp.name, resp.args))>>, 1)

\* improved_llm_function.py: main() handles KeyError, JSONDecodeError and
\* every other exception.
DemoImprovedRun(resp) ==
    IF resp.kind = "llm_error"
    THEN Out("return", "none", <<>>, <<Event("error", <<"Error">>)>>, 0)
    ELSE IF resp.kind = "text"
    THEN Out("return", "none", <<>>, <<Event("response", <<>>)>>, 0)
    ELSE IF resp.args.shape = "badjson"
    THEN Out("return", "none", <<>>, <<Event("error", <<"Failed to parse">>)>>, 0)
    ELSE IF resp.name \notin Registry("demo_improved")
    THEN Out("return", "none", <<>>, <<Event("error", <<"Unknown tool", resp.name>>)>>, 0)
    ELSE IF ~BindOK("demo_improved", resp.name, resp.args)
    THEN Out("return", "none", <<>>, <<Event("error", <<"Error">>)>>, 0)
    ELSE Out("return", "none", <<>>,
             <<Event("result", ToolValue(resp.name, resp.args))>>, 1)

\* ---- running the programs --------------------------------------------------
NoResp == Resp("none", NoArg, NoArgs)

\* The memory each loop starts from: the earliest loops and the GAME agent
\* keep the task alone, the improved loops the system prompt and the task.
InitialMemory(v) ==
    IF v \in {"native", "native2", "markdown"} THEN <<SystemMsg, TaskMsg>>
    ELSE IF v \in {"earliest", "game"} THEN <<TaskMsg>>
    ELSE <<>>

MaxIterationsChoices(v) ==
    IF v = "earliest" THEN {EarliestMaxIterations}
    ELSE IF v \in DemoVariants THEN {1}
    ELSE 0..MaxIter

\* One pass of the loop body of variant v.
LoopBody(v, resp, it, max, verb) ==
    IF v = "earliest" THEN EarliestIteration(resp)
    ELSE IF v \in {"native", "native2"} THEN NativeIteration(v, resp, verb)
    ELSE IF v = "markdown" THEN MarkdownIteration(resp, it, max)
    ELSE GameIteration(resp)

\* The loop counter at the start of the body: the earliest loops leave it
\* alone, the others count the pass.
CounterInBody(v, it) == IF v = "earliest" THEN it ELSE it + 1

\* The code after the loop.
PostLoop(v, it, max) ==
    IF v \in {"native", "native2"}
    THEN IF it >= max THEN <<Event("exhausted", <<>>)>> ELSE <<>>
    ELSE IF v = "markdown" THEN <<Event("loop_completed", <<>>)>>
    ELSE <<>>

\* AgentFunctionCallingLanguage.format_memory: assistant items keep their
\* role, every other item is sent with the role user.
format_memory(mem) ==
    [i \in 1..Len(mem) |->
        [mem[i] EXCEPT !.role = IF @ = "assistant" THEN "assistant" ELSE "user"]]

\* A request that carries only the two most recent messages.
messages_sent_recent(v, mem) ==
    IF Len(mem) < 2 THEN mem ELSE SubSeq(mem, Len(mem) - 1, Len(mem))

\* The messages of a completion request: the improved loops send the
\* memory itself, the earliest loops and the demos the rules followed by the
\* memory (the demos' memory is the task), the GAME agent the goals followed
\* by the formatted memory.
messages_sent(v, mem) ==
    IF v \in {"native", "native2", "markdown"} THEN mem
    ELSE IF v = "earliest" THEN <<SystemMsg>> \o mem
    ELSE IF v = "game" THEN <<SystemMsg>> \o format_memory(mem)
    ELSE <<SystemMsg, TaskMsg>>

NextPc(next) ==
    IF next = "continue" THEN "loop"
    ELSE IF next = "break" THEN "after"
    ELSE IF next = "return" THEN "done"
    ELSE "crashed"

Apply(resp, out) ==
    /\ requests' = requests + 1
    /\ sent' = Append(sent, messages_sent(variant, memory))
    /\ responses' = Append(responses, resp)
    /\ memory' = memory \o out.mem
    /\ output' = output \o out.out
    /\ toolruns' = toolruns + out.ran
    /\ crash' = out.exception
    /\ lpc' = NextPc(out.next)

\* One pass of an agent loop: the loop test, the completion request, the
\* model's response and everything the body does with it.
Iterate ==
    /\ variant \in LoopVariants
    /\ lpc = "loop"
    /\ iteration < max_iterations
    /\ requests < MaxRequests
    /\ \E resp \in Responses(variant) :
        LET it == CounterInBody(variant, iteration)
            out == LoopBody(variant, resp, it, max_iterations, verbose)
        IN  /\ (variant = "earliest" /\ out.next = "continue") => resp = rep
            /\ iteration' = it
            /\ Apply(resp, out)
    /\ UNCHANGED <<variant, max_iterations, rep, verbose>>
    /\ UNCHANGED notLoopVars

\* The loop test fails, or the body left the loop with break: the code after
\* the loop runs and the program ends.
AfterLoop ==
    /\ variant \in LoopVariants
    /\ \/ lpc = "after"
       \/ lpc = "loop" /\ ~(iteration < max_iterations)
    /\ output' = output \o PostLoop(variant, iteration, max_iterations)
    /\ lpc' = "done"
    /\ UNCHANGED <<variant, max_iterations, iteration, requests, memory, crash,
                   toolruns, responses, rep, verbose, sent>>
    /\ UNCHANGED notLoopVars

\* A single-shot demo: one completion request, one tool dispatch.
SingleShot ==
    /\ variant \in DemoVariants
    /\ lpc = "loop"
    /\ \E resp \in Responses(variant) :
        Apply(resp, IF variant = "demo" THEN DemoRun(resp) ELSE DemoImprovedRun(resp))
    /\ UNCHANGED <<variant, max_iterations, iteration, rep, verbose>>
    /\ UNCHANGED notLoopVars

LoopInit ==
    /\ variant \in Variants
    /\ max_iterations \in MaxIterationsChoices(variant)
    /\ verbose \in (IF variant = "native" THEN BOOLEAN ELSE {FALSE})
    /\ rep \in (IF variant = "earliest"
                THEN {r \in Responses("earliest") :
                        EarliestIteration(r).next = "continue"}
                ELSE {NoResp})
    /\ iteration = 0
    /\ requests = 0
    /\ memory = InitialMemory(variant)
    /\ lpc = "loop"
    /\ crash = "none"
    /\ output = <<>>
    /\ toolruns = 0
    /\ responses = <<>>
    /\ sent = <<>>

(***************************************************************************)
(* ActionRegistry of a_sample_agent_framework_improved.py.                 *)
(***************************************************************************)
MaxRegisters == 3

ActionNames == {"n1", "n2"}
ActionIds == {"a1", "a2"}

\* The Action objects: told apart by identity, each with its name.
Actions == [name : ActionNames, id : ActionIds]

\* A register that keeps the action already stored under the name
\* (dict.setdefault).
register_keep_first(actions, action) ==
    IF action.name \in DOMAIN actions THEN actions
    ELSE (action.name :> action) @@ actions

\* register: self.actions[action.name] = action
register(actions, action) == (action.name :> action) @@ actions

\* get_action: self.actions.get(name)
get_action(actions, name) ==
    IF name \in DOMAIN actions THEN Some(actions[name]) ELSE None

NoLookup == [name |-> "none", result |-> None, at |-> 0]

Register ==
    /\ Len(reg_log) < MaxRegisters
    /\ \E action \in Actions :
        /\ reg_actions' = register(reg_actions, action)
        /\ reg_log' = Append(reg_log, action)
    /\ UNCHANGED reg_got
    /\ UNCHANGED notRegVars

GetAction ==
    /\ \E name \in ActionNames :
        reg_got' = [name |-> name, result |-> get_action(reg_actions, name),
                    at |-> Len(reg_log)]
    /\ UNCHANGED <<reg_actions, reg_log>>
    /\ UNCHANGED notRegVars

\* ActionRegistry.__init__: self.actions = {}
RegInit ==
    /\ reg_actions = <<>>
    /\ reg_log = <<>>
    /\ reg_got = NoLookup

\* No registry is used.
RegOff == RegInit

RegNext ==
    \/ Register
    \/ GetAction

(***************************************************************************)
(* The quasi-agent pipeline of quasi_agent_improved.py: three generation   *)
(* steps over one running conversation, then the output file.  A text is a *)
(* sequence of tokens: "CR", "LF", "FENCE" (three backquotes) and "PY" (the *)
(* word python) are told apart, every other token is ordinary text.        *)
(***************************************************************************)
MaxRuns == 2

\* DEFAULT_MAX_TOKENS, DEFAULT_RETRIES and the file-name cut of the source.
DEFAULT_MAX_TOKENS == 2048
DEFAULT_RETRIES == 3
FilenameLimit == 40
MinimalFilenameLimit == 30

Whitespace == {"CR", "LF", "SP"}

RECURSIVE LStrip(_)
LStrip(s) ==
    IF s # <<>> /\ Head(s) \in Whitespace THEN LStrip(Tail(s)) ELSE s

RECURSIVE RStrip(_)
RStrip(s) ==
    IF s # <<>> /\ Last(s) \in Whitespace
    THEN RStrip(SubSeq(s, 1, Len(s) - 1)) ELSE s

\* str.strip()
Strip(s) == RStrip(LStrip(s))

\* The text before the first FENCE (all of it when there is none).
RECURSIVE BeforeFence(_)
BeforeFence(s) ==
    IF s = <<>> \/ Head(s) = "FENCE" THEN <<>>
    ELSE <<Head(s)>> \o BeforeFence(Tail(s))

\* response.split('```')[1]: the text between the first FENCE and the next.
SecondPart(s) ==
    BeforeFence(SubSeq(s, Len(BeforeFence(s)) + 2, Len(s)))

HasFence(s) == \E i \in 1..Len(s) : s[i] = "FENCE"

\* str.lower() on one token: "PY" is the word python, "PYU" the same word
\* with upper-case letters in it.
Lower(c) == IF c = "PYU" THEN "PY" ELSE c

\* An extraction that returns the whole response, fences and all.
extract_code_block_whole(response) == Strip(response)

\* extract_code_block: the stripped content of the first fenced block without
\* its language tag, or the stripped response when there is no fence.
extract_code_block(response) ==
    IF ~HasFence(response) THEN Strip(response)
    ELSE LET code_block == Strip(SecondPart(response))
         IN  IF code_block # <<>> /\ Lower(Head(code_block)) = "PY"
             THEN Strip(Tail(code_block))
             ELSE code_block

\* What the user types at the prompt, after input().strip(): upper-case ("A")
\* and lower-case ("a") letters, spaces ("SP") and punctuation ("P").
Descriptions == {<<>>, <<"A", "SP", "a">>, <<"a", "P", "a">>}

\* The model's replies explored at each step.
Replies ==
    { <<"code1", "CR", "code2">>,
      <<"talk", "FENCE", "PY", "LF", "code1", "LF", "code2", "LF", "FENCE", "talk">> }

\* Number of RateLimitErrors a call meets before its final outcome.
RateLimitChoices == {0, DEFAULT_RETRIES}

\* lower(), the filter "c.isalnum() or c.isspace()" and replace(' ', '_'),
\* character by character: an upper-case letter ("A") becomes lower-case
\* ("a"), punctuation ("P") is dropped, a space ("SP") becomes "_", and any
\* other white-space character (a tab, "TAB") is kept as it is.
RECURSIVE SelectKept(_)
SelectKept(s) ==
    IF s = <<>> THEN <<>>
    ELSE IF Head(s) = "P" THEN SelectKept(Tail(s))
    ELSE <<(IF Head(s) = "A" THEN "a" ELSE IF Head(s) = "SP" THEN "_" ELSE Head(s))>>
         \o SelectKept(Tail(s))

\* A cut one character too long.
derive_filename_cut_late(description, limit) ==
    LET kept == SelectKept(description)
    IN  SubSeq(kept, 1, IF Len(kept) < limit + 1 THEN Len(kept) ELSE limit + 1)
        \o <<".py">>

\* filename.replace(' ', '_')[:limit] + '.py'
derive_filename(description, limit) ==
    LET kept == SelectKept(description)
    IN  SubSeq(kept, 1, IF Len(kept) < limit THEN Len(kept) ELSE limit)
        \o <<".py">>

\* The file name derived from the description: lower-cased, letters, digits
\* and white space kept, spaces replaced by "_", cut to 40 characters, ".py".
make_filename(description) == derive_filename(description, FilenameLimit)

\* The same in Quasi-Agent.py, cut to 30 characters.
make_filename_minimal(description) == derive_filename(description, MinimalFilenameLimit)

final_content(description, documented_function, test_cases) ==
    <<"QUOTES", "LF", "Auto-generated function: ">> \o description
    \o <<"LF", "Generated by Quasi-Agent", "LF", "QUOTES", "LF", "LF">>
    \o documented_function \o <<"LF", "LF", "LF">> \o test_cases \o <<"LF">>

QMsg(role, content) == [role |-> role, content |-> content]

SystemPrompt == QMsg("system", <<"You are an expert Python developer">>)

\* The request of step k; the first one embeds the description.
UserRequest(k, description) ==
    IF k = 1 THEN QMsg("user", <<"Write a Python function that ">> \o description)
    ELSE IF k = 2 THEN QMsg("user", <<"Add comprehensive documentation">>)
    ELSE QMsg("user", <<"Create comprehensive unittest test cases">>)

\* The reply as it enters the conversation: the extracted code, fenced again.
AssistantReply(code) ==
    QMsg("assistant", <<"FENCE", "PY", "LF">> \o code \o <<"LF", "FENCE">>)

\* The options each step passes to generate_response.
StepOptions(k) ==
    [model |-> "model",
     max_tokens |-> IF k = 3 THEN 2048 ELSE DEFAULT_MAX_TOKENS,
     temperature |-> 0]

\* The placeholder each step uses in mock mode.
MockText(k, initial_function) ==
    IF k = 1 THEN <<"def mock_function():", "LF", "return 'mock'">>
    ELSE IF k = 2 THEN initial_function \o <<"LF", "# Mock documentation">>
    ELSE <<"import unittest", "LF", "LF", "class TestMock(unittest.TestCase):", "LF",
           "def test_mock(self):", "LF", "self.assertEqual(mock_function(), 'mock')",
           "LF", "LF", "if __name__ == '__main__':", "LF", "unittest.main()">>

\* The cache directory with the file named by the key looked at.
Dir(c, key) == IF key \in DOMAIN c THEN c ELSE (key :> None) @@ c

Effect(value, c, calls, reads, writes, raised) ==
    [ret |-> value, cache |-> c, calls |-> calls, reads |-> reads,
     writes |-> writes, raised |-> raised]

\* A call that stores an empty text under the key when it gives up.
generate_response_caching_failure(c, messages, options, dir, plat, rl, kind, content) ==
    LET cache_key == make_cache_key([messages |-> messages, options |-> options])
        cached_value == IF dir THEN read_cache(Dir(c, cache_key), cache_key) ELSE None
        nread == IF dir THEN 1 ELSE 0
        failed == IF dir THEN write_cache(Dir(c, cache_key), cache_key, <<>>, plat) ELSE c
    IN  IF dir /\ ~IsNone(cached_value)
        THEN Effect(Val(cached_value), c, 0, 1, 0, FALSE)
        ELSE IF rl > 0 /\ Exhausted(rl, DEFAULT_RETRIES)
        THEN Effect(<<>>, failed, DEFAULT_RETRIES, nread, 0, TRUE)
        ELSE IF kind = "err"
        THEN Effect(<<>>, failed, rl + 1, nread, 0, TRUE)
        ELSE IF dir
        THEN Effect(content, write_cache(Dir(c, cache_key), cache_key, content, plat),
                    rl + 1, 1, 1, FALSE)
        ELSE Effect(content, c, rl + 1, 0, 0, FALSE)

\* One whole call of generate_response(messages, ..., cache_dir): the cache
\* lookup, the retry loop (rl rate-limit errors, then the outcome `kind`) and
\* the cache write.
generate_response(c, messages, options, dir, plat, rl, kind, content) ==
    LET cache_key == make_cache_key([messages |-> messages, options |-> options])
        cached_value == IF dir THEN read_cache(Dir(c, cache_key), cache_key) ELSE None
        nread == IF dir THEN 1 ELSE 0
    IN  IF dir /\ ~IsNone(cached_value)
        THEN Effect(Val(cached_value), c, 0, 1, 0, FALSE)
        ELSE IF rl > 0 /\ Exhausted(rl, DEFAULT_RETRIES)
        THEN Effect(<<>>, c, DEFAULT_RETRIES, nread, 0, TRUE)
        ELSE IF kind = "err"
        THEN Effect(<<>>, c, rl + 1, nread, 0, TRUE)
        ELSE IF dir
        THEN Effect(content, write_cache(Dir(c, cache_key), cache_key, content, plat),
                    rl + 1, 1, 1, FALSE)
        ELSE Effect(content, c, rl + 1, 0, 0, FALSE)

\* A step that asks the model even in mock mode.
step_text_ignoring_mock(k, mock, initial_function, c, messages, dir, plat, rl, kind, content) ==
    generate_response(c, messages, StepOptions(k), dir, plat, rl, kind, content)

\* "generate_response(...) if not mock else <placeholder>"
step_text(k, mock, initial_function, c, messages, dir, plat, rl, kind, content) ==
    IF mock THEN Effect(MockText(k, initial_function), c, 0, 0, 0, FALSE)
    ELSE generate_response(c, messages, StepOptions(k), dir, plat, rl, kind, content)

NoRun == [completed |-> FALSE, description |-> <<>>, mock |-> FALSE,
          cache_enabled |-> FALSE, saved |-> None, calls |-> 0, texts |-> <<>>]

RunSummary ==
    [completed |-> q_pc = "done", description |-> q_description, mock |-> q_mock,
     cache_enabled |-> q_cache_enabled, saved |-> q_saved, calls |-> q_calls,
     texts |-> q_texts]

\* A run of the program up to the first step: the description is read, an
\* empty one ends the program, the conversation starts with the system prompt.
StartRun(description, mock, cache_enabled) ==
    /\ q_pc \in {"idle", "done", "exit", "raised"}
    /\ q_run < MaxRuns
    /\ q_run' = q_run + 1
    /\ q_prev' = IF q_pc = "idle" THEN NoRun ELSE RunSummary
    /\ q_description' = description
    /\ q_mock' = mock
    /\ q_cache_enabled' = cache_enabled
    /\ q_step' = 0
    /\ q_messages' = IF description = <<>> THEN <<>> ELSE <<SystemPrompt>>
    /\ q_sent' = <<>>
    /\ q_texts' = <<>>
    /\ q_code' = <<>>
    /\ q_calls' = 0
    /\ q_reads' = 0
    /\ q_writes' = 0
    /\ q_cache0' = q_cache
    /\ q_saved' = None
    /\ q_pc' = IF description = <<>> THEN "exit" ELSE "step"
    /\ UNCHANGED <<q_cache, q_files>>

\* Step k = q_step + 1: the request is appended, the text is obtained and the
\* code extracted; steps 1 and 2 append the fenced code as the assistant's
\* reply, step 3 appends nothing more.
Step(rl, kind, content) ==
    /\ q_pc = "step"
    /\ LET k == q_step + 1
           messages == Append(q_messages, UserRequest(k, q_description))
           initial_function == IF q_code = <<>> THEN <<>> ELSE q_code[1]
           e == step_text(k, q_mock, initial_function, q_cache, messages,
                          q_cache_enabled, platform, rl, kind, content)
           code == extract_code_block(e.ret)
       IN  /\ q_sent' = IF q_mock THEN q_sent ELSE Append(q_sent, messages)
           /\ q_calls' = q_calls + e.calls
           /\ q_reads' = q_reads + e.reads
           /\ q_writes' = q_writes + e.writes
           /\ q_cache' = e.cache
           /\ IF e.raised
              THEN /\ q_pc' = "raised"
                   /\ q_messages' = messages
                   /\ UNCHANGED <<q_step, q_texts, q_code>>
              ELSE /\ q_step' = k
                   /\ q_texts' = Append(q_texts, e.ret)
                   /\ q_code' = Append(q_code, code)
                   /\ q_messages' = IF k < 3 THEN Append(messages, AssistantReply(code))
                                    ELSE messages
                   /\ q_pc' = IF k = 3 THEN "save" ELSE "step"
    /\ UNCHANGED <<q_run, q_description, q_mock, q_cache_enabled, q_cache0,
                   q_files, q_saved, q_prev>>

\* Step 4: the file name is derived and the file written in text mode.
Save ==
    /\ q_pc = "save"
    /\ LET filename == make_filename(q_description)
           content == EncodeNewlines(final_content(q_description, q_code[2], q_code[3]),
                                     platform)
       IN  /\ q_files' = (filename :> content) @@ q_files
           /\ q_saved' = Some(<<filename, content>>)
    /\ q_pc' = "done"
    /\ UNCHANGED <<q_run, q_description, q_mock, q_cache_enabled, q_step,
                   q_messages, q_sent, q_texts, q_code, q_calls, q_reads,
                   q_writes, q_cache, q_cache0, q_prev>>

RunStarts ==
    /\ \E description \in Descriptions, mock \in BOOLEAN, cache_enabled \in BOOLEAN :
          StartRun(description, mock, cache_enabled)
    /\ UNCHANGED notQaVars

StepSucceeds ==
    /\ \E rl \in RateLimitChoices \ {DEFAULT_RETRIES}, content \in Replies :
          Step(rl, "ok", content)
    /\ UNCHANGED notQaVars

StepFails ==
    /\ ~q_mock
    /\ \E rl \in RateLimitChoices : Step(rl, "err", <<>>)
    /\ q_pc' = "raised"
    /\ UNCHANGED notQaVars

SaveFile ==
    /\ Save
    /\ UNCHANGED notQaVars

QaInit ==
    /\ q_pc = "idle"
    /\ q_run = 0
    /\ q_description = <<>>
    /\ q_mock = FALSE
    /\ q_cache_enabled = FALSE
    /\ q_step = 0
    /\ q_messages = <<>>
    /\ q_sent = <<>>
    /\ q_texts = <<>>
    /\ q_code = <<>>
    /\ q_calls = 0
    /\ q_reads = 0
    /\ q_writes = 0
    /\ q_cache = <<>>
    /\ q_cache0 = <<>>
    /\ q_files = <<>>
    /\ q_saved = None
    /\ q_prev = NoRun

\* No quasi-agent run.
QaOff == QaInit

QaNext ==
    \/ RunStarts
    \/ StepSucceeds
    \/ StepFails
    \/ SaveFile

(***************************************************************************)
(* The pure functions of the repository, each applied once to arguments    *)
(* drawn from bounded sets.                                                *)
(***************************************************************************)
MaxPad == 41

\* The characters of a description: upper- and lower-case letters, the
\* space, another white-space character, punctuation.
DescChars == {"A", "a", "SP", "TAB", "P"}

RECURSIVE Repeat(_, _)
Repeat(c, n) == IF n <= 0 THEN <<>> ELSE <<c>> \o Repeat(c, n - 1)

\* What input().strip() can return: no white space at either end.
Stripped(d) ==
    d = <<>> \/ (Head(d) \notin {"SP", "TAB"} /\ Last(d) \notin {"SP", "TAB"})

\* Descriptions: a run of one character followed by up to two characters.
DescriptionInputs ==
    { d \in { Repeat(c, n) \o s : c \in DescChars, n \in 0..MaxPad,
                                  s \in UNION {[1..m -> DescChars] : m \in 0..2} } :
        Stripped(d) }

(***************************************************************************)
(* The filesystem tools.  A call looks at one path; the node found there   *)
(* is missing, a file or a directory with named entries.  Strings are      *)
(* pairs: <<"content", name>> is the text of a file, <<"Error", reason>>   *)
(* an error string, <<"name", n>> a file name in a listing.                *)
(***************************************************************************)
MaxNames == 2

\* File names, in alphabetical order.
NameOrder == <<"error", "f1", "info", "z1">>
Names == {NameOrder[i] : i \in 1..(IF MaxNames < 4 THEN MaxNames ELSE 4)}

\* What a regular file can be: readable text, larger than 10 MB, not UTF-8,
\* not readable by this user.
FileKinds == {"text", "oversized", "binary", "unreadable"}
EntryKinds == FileKinds \cup {"subdir"}

FsNode(type, kind, entries) == [type |-> type, kind |-> kind, entries |-> entries]
Missing == FsNode("missing", "-", <<>>)
FileNode(kind) == FsNode("file", kind, <<>>)
DirNode(entries) == FsNode("dir", "-", entries)
\* A directory whose entries this user may not list.
LockedDir == FsNode("locked_dir", "-", <<>>)

Directories ==
    {DirNode(e) : e \in UNION {[S -> EntryKinds] : S \in SUBSET Names}}

FsNodes == {Missing, LockedDir} \cup {FileNode(k) : k \in FileKinds} \cup Directories

ToolVersions == {"earliest", "improved", "improved2"}

ErrorString(reason) == <<"Error", reason>>
Content(name) == <<"content", name>>

\* The names of the regular files of a directory, sorted.
RegularFiles(node) == {n \in DOMAIN node.entries : node.entries[n] # "subdir"}
SortedNames(S) == SelectSeq(NameOrder, LAMBDA n : n \in S)

RECURSIVE AsItems(_)
AsItems(names) ==
    IF names = <<>> THEN <<>> ELSE <<(<<"name", Head(names)>>)>> \o AsItems(Tail(names))

\* A read_file whose missing-file branch raises.
read_file_raising(version, node) ==
    IF node.type = "missing" THEN [raised |-> TRUE, value |-> <<"FileNotFoundError", "-">>]
    ELSE [raised |-> FALSE, value |-> Content("path")]

\* read_file(file_name): the three versions.  The earliest one opens the
\* path and turns every exception into an error string; the improved ones
\* test existence, kind and size first.
read_file(version, node) ==
    [raised |-> FALSE,
     value |->
        IF node.type = "missing" THEN ErrorString("not found")
        ELSE IF node.type \in {"dir", "locked_dir"}
        THEN IF version = "earliest" THEN ErrorString("Is a directory")
             ELSE ErrorString("is not a file")
        ELSE IF node.kind = "oversized" /\ version # "earliest"
        THEN ErrorString("File too large")
        ELSE IF node.kind = "unreadable" THEN ErrorString("Permission denied")
        ELSE IF node.kind = "binary"
        THEN IF version = "earliest" THEN ErrorString("codec can't decode")
             ELSE ErrorString("not a text file")
        ELSE Content("path")]

\* list_files(directory) of the improved versions: the sorted names of the
\* regular files, or a one-element list with an error description.
list_files(version, node) ==
    [raised |-> FALSE,
     value |->
        IF node.type = "missing" THEN <<ErrorString("Directory not found")>>
        ELSE IF node.type = "file"
        THEN IF version = "improved2" THEN <<ErrorString("is not a directory")>>
             ELSE <<ErrorString("Error listing files: Not a directory")>>
        ELSE IF node.type = "locked_dir"
        THEN <<ErrorString("Error listing files: Permission denied")>>
        ELSE AsItems(SortedNames(RegularFiles(node)))]

\* The orders in which os.listdir can give the entries.
Listings(node) ==
    {s \in UNION {[1..n -> Names] : n \in 0..Cardinality(Names)} :
        /\ Len(s) = Cardinality(DOMAIN node.entries)
        /\ {s[i] : i \in 1..Len(s)} = DOMAIN node.entries}

\* list_files() of the earliest version: os.listdir("."), every entry, in
\* the order the system gives them; an exception of the listing escapes.
list_files_earliest(node, order) ==
    IF node.type = "locked_dir"
    THEN [raised |-> TRUE, value |-> <<"PermissionError", "-">>]
    ELSE [raised |-> FALSE, value |-> AsItems(order)]

\* What read_all_files stores for one regular file.
FileEntry(name, kind) ==
    IF kind = "oversized" THEN ErrorString("File too large")
    ELSE IF kind = "binary" THEN ErrorString("Not a text file")
    ELSE IF kind = "unreadable" THEN ErrorString("Permission denied")
    ELSE Content(name)

\* A batch that gives up at the first file it cannot read.
read_all_files_abort_on_failure(node) ==
    IF node.type # "dir"
    THEN [raised |-> FALSE, value |-> [k \in {"error"} |-> <<"message", "invalid">>]]
    ELSE IF \E n \in RegularFiles(node) : node.entries[n] # "text"
    THEN [raised |-> FALSE, value |-> [k \in {"error"} |-> <<"message", "Error reading directory">>]]
    ELSE [raised |-> FALSE,
          value |-> [n \in RegularFiles(node) |-> FileEntry(n, node.entries[n])]]

\* read_all_files(directory): {"error": ...} for a path that is no directory
\* (or cannot be listed), one entry per regular file otherwise, and
\* {"info": ...} when that leaves the mapping empty.
read_all_files(node) ==
    [raised |-> FALSE,
     value |->
        IF node.type = "missing"
        THEN [k \in {"error"} |-> <<"message", "Directory not found">>]
        ELSE IF node.type = "file"
        THEN [k \in {"error"} |-> <<"message", "is not a directory">>]
        ELSE IF node.type = "locked_dir"
        THEN [k \in {"error"} |-> <<"message", "Error reading directory">>]
        ELSE IF RegularFiles(node) = {}
        THEN [k \in {"info"} |-> <<"message", "No files found in directory">>]
        ELSE [n \in RegularFiles(node) |-> FileEntry(n, node.entries[n])]]

(***************************************************************************)
(* calculate_fibonacci_sequence_u.py                                       *)
(***************************************************************************)
MaxFibArg == 60

\* "while a < n: result.append(a); a, b = b, a + b"
RECURSIVE fib_loop(_, _, _, _)
fib_loop(result, a, b, n) ==
    IF a < n THEN fib_loop(Append(result, a), b, a + b, n) ELSE result

\* A sequence that starts from 1, 1.
fibonacci_from_one(n) == fib_loop(<<>>, 1, 1, n)

\* fibonacci(n): result = [], a, b = 0, 1, the loop, return result.
fibonacci(n) == fib_loop(<<>>, 0, 1, n)

FibonacciInputs == {<<n>> : n \in (0 - MaxFibArg)..MaxFibArg}

(***************************************************************************)
(* given_a_set_of_nonoverlapping_.py                                       *)
(***************************************************************************)
MaxCoord == 4
MaxIntervals == 2

Min2(a, b) == IF a <= b THEN a ELSE b

\* First loop: "while i < n and intervals[i][1] < new_interval[0]: i += 1"
\* (positions count from 1 here).
RECURSIVE skip_before(_, _, _)
skip_before(intervals, new_interval, i) ==
    IF i <= Len(intervals) /\ intervals[i][2] < new_interval[1]
    THEN skip_before(intervals, new_interval, i + 1)
    ELSE i

\* A merge loop that leaves out intervals which only touch the new one.
RECURSIVE merge_overlapping_strict(_, _, _)
merge_overlapping_strict(intervals, new_interval, i) ==
    IF i <= Len(intervals) /\ intervals[i][1] < new_interval[2]
    THEN merge_overlapping_strict(intervals,
                           <<Min2(new_interval[1], intervals[i][1]),
                             Max2(new_interval[2], intervals[i][2])>>,
                           i + 1)
    ELSE [i |-> i, new_interval |-> new_interval]

\* Second loop: "while i < n and intervals[i][0] <= new_interval[1]", which
\* assigns to new_interval[0] and new_interval[1] in place.
RECURSIVE merge_overlapping(_, _, _)
merge_overlapping(intervals, new_interval, i) ==
    IF i <= Len(intervals) /\ intervals[i][1] <= new_interval[2]
    THEN merge_overlapping(intervals,
                           <<Min2(new_interval[1], intervals[i][1]),
                             Max2(new_interval[2], intervals[i][2])>>,
                           i + 1)
    ELSE [i |-> i, new_interval |-> new_interval]

\* insert_interval(intervals, new_interval): the value returned and the two
\* argument objects as the call leaves them.
insert_interval(intervals, new_interval) ==
    LET i1 == skip_before(intervals, new_interval, 1)
        m == merge_overlapping(intervals, new_interval, i1)
    IN  [result |-> SubSeq(intervals, 1, i1 - 1) \o <<m.new_interval>>
                    \o SubSeq(intervals, m.i, Len(intervals)),
         intervals |-> intervals,
         new_interval |-> m.new_interval]

\* Intervals [s, e] with s <= e, zero-length ones included.
Intervals == {iv \in (0..MaxCoord) \X (0..MaxCoord) : iv[1] <= iv[2]}

\* Sorted by start, and no two intervals with more than an end point in common.
SortedDisjoint(list) ==
    \A i \in 1..(Len(list) - 1) : list[i][2] <= list[i + 1][1]

\* Sorted by start, and no two intervals with a point in common.
SortedApart(list) ==
    \A i \in 1..(Len(list) - 1) : list[i][2] < list[i + 1][1]

IntervalLists ==
    {list \in UNION {[1..n -> Intervals] : n \in 0..MaxIntervals} :
        SortedDisjoint(list)}

InsertIntervalInputs ==
    {<<list, iv>> : list \in IntervalLists, iv \in Intervals}

(***************************************************************************)
(* maximum_running_time_of_n_comp.py                                       *)
(***************************************************************************)
MaxTasks == 3
MaxDuration == 3

RECURSIVE SumSeq(_)
SumSeq(s) == IF s = <<>> THEN 0 ELSE Head(s) + SumSeq(Tail(s))

RECURSIVE MaxSeq(_)
MaxSeq(s) == IF Len(s) = 1 THEN Head(s) ELSE Max2(Head(s), MaxSeq(Tail(s)))

\* The body of "for task in tasks" from position i on, with the running
\* count and total.
RECURSIVE assign_from(_, _, _, _, _, _)
assign_from(tasks, N, mid, i, count, total) ==
    IF i > Len(tasks) THEN TRUE
    ELSE IF tasks[i] > mid THEN FALSE
    ELSE IF total + tasks[i] <= mid
    THEN assign_from(tasks, N, mid, i + 1, count, total + tasks[i])
    ELSE IF count + 1 > N THEN FALSE
    ELSE assign_from(tasks, N, mid, i + 1, count + 1, tasks[i])

\* A check that allows one computer more than there are.
can_assign_one_more(tasks, N, mid) == assign_from(tasks, N + 1, mid, 1, 1, 0)

\* can_assign(mid): the greedy check, count = 1, total = 0.
can_assign(tasks, N, mid) == assign_from(tasks, N, mid, 1, 1, 0)

\* "while low <= high: mid = (low + high) // 2 ..."
RECURSIVE binary_search(_, _, _, _, _)
binary_search(tasks, N, low, high, max_time) ==
    IF low <= high
    THEN LET mid == (low + high) \div 2
         IN  IF can_assign(tasks, N, mid)
             THEN binary_search(tasks, N, low, mid - 1, mid)
             ELSE binary_search(tasks, N, mid + 1, high, max_time)
    ELSE max_time

max_running_time(tasks, N) ==
    IF tasks = <<>> THEN 0
    ELSE binary_search(tasks, N, MaxSeq(tasks), SumSeq(tasks), 0)

MaxRunningTimeInputs ==
    {<<tasks, N>> : tasks \in UNION {[1..n -> 1..MaxDuration] : n \in 0..MaxTasks},
                    N \in 1..(MaxTasks + 1)}

(***************************************************************************)
(* median_of_the_2_sorted_arrays.py                                        *)
(*                                                                         *)
(* A returned number is the pair <<numerator, denominator>>: the odd case  *)
(* returns max_of_left itself, the even case the sum of the two middle     *)
(* elements divided by 2.0.                                                *)
(***************************************************************************)
MaxArrayLen == 3
MaxValue == 2
ArrayValues == (0 - 1)..MaxValue

\* list[k] of Python: k counts from 0, a negative k from the end; an index
\* outside -len..len-1 raises IndexError.
InRange(list, k) == 0 - Len(list) <= k /\ k < Len(list)
At(list, k) == IF k >= 0 THEN list[k + 1] ELSE list[Len(list) + k + 1]

IndexError == [raised |-> TRUE, value |-> <<"IndexError", "-">>]
Returned(value) == [raised |-> FALSE, value |-> value]

\* A half that leaves the extra element of an odd total on the right.
half_len_floor(m, n) == (m + n) \div 2

\* half_len = (m + n + 1) // 2
half_len(m, n) == (m + n + 1) \div 2

\* The else branch of the loop: "i is perfect".
partition_found(nums1, nums2, i, j) ==
    LET m == Len(nums1)
        n == Len(nums2)
        left_ok == IF i = 0 THEN InRange(nums2, j - 1)
                   ELSE IF j = 0 THEN InRange(nums1, i - 1)
                   ELSE InRange(nums1, i - 1) /\ InRange(nums2, j - 1)
        max_of_left == IF i = 0 THEN At(nums2, j - 1)
                       ELSE IF j = 0 THEN At(nums1, i - 1)
                       ELSE Max2(At(nums1, i - 1), At(nums2, j - 1))
        right_ok == IF i = m THEN InRange(nums2, j)
                    ELSE IF j = n THEN InRange(nums1, i)
                    ELSE InRange(nums1, i) /\ InRange(nums2, j)
        min_of_right == IF i = m THEN At(nums2, j)
                        ELSE IF j = n THEN At(nums1, i)
                        ELSE Min2(At(nums1, i), At(nums2, j))
    IN  IF ~left_ok THEN IndexError
        ELSE IF (m + n) % 2 = 1 THEN Returned(<<max_of_left, 1>>)
        ELSE IF ~right_ok THEN IndexError
        ELSE Returned(<<max_of_left + min_of_right, 2>>)

\* "while imin <= imax", nums1 being the shorter array; a loop that ends
\* without a return makes the function return None.
RECURSIVE median_search(_, _, _, _)
median_search(nums1, nums2, imin, imax) ==
    LET m == Len(nums1)
        i == (imin + imax) \div 2
        j == half_len(m, Len(nums2)) - i
    IN  IF imin > imax THEN Returned(None)
        ELSE IF i < m /\ ~(InRange(nums2, j - 1) /\ InRange(nums1, i)) THEN IndexError
        ELSE IF i < m /\ At(nums2, j - 1) > At(nums1, i)
        THEN median_search(nums1, nums2, i + 1, imax)
        ELSE IF i > 0 /\ ~(InRange(nums1, i - 1) /\ InRange(nums2, j)) THEN IndexError
        ELSE IF i > 0 /\ At(nums1, i - 1) > At(nums2, j)
        THEN median_search(nums1, nums2, imin, i - 1)
        ELSE partition_found(nums1, nums2, i, j)

find_median_sorted_arrays(nums1, nums2) ==
    IF Len(nums1) > Len(nums2)
    THEN median_search(nums2, nums1, 0, Len(nums2))
    ELSE median_search(nums1, nums2, 0, Len(nums1))

\* The arrays in the order the loop uses them, without the exchange.
shorter_first_no_swap(nums1, nums2) == <<nums1, nums2>>

\* "if len(nums1) > len(nums2): nums1, nums2 = nums2, nums1"
shorter_first(nums1, nums2) ==
    IF Len(nums1) > Len(nums2) THEN <<nums2, nums1>> ELSE <<nums1, nums2>>

\* One pass of the loop body at the partition (i, j): the subscripts it
\* evaluates, as pairs <<array, index>> in the order of the code's short
\* circuits, and the branch it takes.  "IndexError" stands for a subscript
\* outside 0..len-1 or -len..-1.
loop_pass(nums1, nums2, i, j) ==
    LET m == Len(nums1)
        n == Len(nums2)
        R1(k) == <<1, k>>
        R2(k) == <<2, k>>
        Ok(S) == \A r \in S : InRange(IF r[1] = 1 THEN nums1 ELSE nums2, r[2])
        first == IF i < m THEN {R2(j - 1), R1(i)} ELSE {}
        second == IF i > 0 THEN {R1(i - 1), R2(j)} ELSE {}
        left == IF i = 0 THEN {R2(j - 1)}
                ELSE IF j = 0 THEN {R1(i - 1)}
                ELSE {R1(i - 1), R2(j - 1)}
        right == IF i = m THEN {R2(j)}
                 ELSE IF j = n THEN {R1(i)}
                 ELSE {R1(i), R2(j)}
        Pass(branch, reads) == [i |-> i, j |-> j, branch |-> branch, reads |-> reads]
    IN  IF ~Ok(first) THEN Pass("IndexError", first)
        ELSE IF i < m /\ At(nums2, j - 1) > At(nums1, i) THEN Pass("right", first)
        ELSE IF ~Ok(second) THEN Pass("IndexError", first \cup second)
        ELSE IF i > 0 /\ At(nums1, i - 1) > At(nums2, j) THEN Pass("left", first \cup second)
        ELSE IF ~Ok(left) THEN Pass("IndexError", first \cup second \cup left)
        ELSE IF (m + n) % 2 = 1 THEN Pass("return", first \cup second \cup left)
        ELSE IF ~Ok(right) THEN Pass("IndexError", first \cup second \cup left \cup right)
        ELSE Pass("return", first \cup second \cup left \cup right)

\* The passes of "while imin <= imax" in order; a loop left without a
\* return ends the sequence with a pass whose branch is "fell_through".
RECURSIVE loop_passes(_, _, _, _)
loop_passes(nums1, nums2, imin, imax) ==
    LET i == (imin + imax) \div 2
        j == half_len(Len(nums1), Len(nums2)) - i
        pass == loop_pass(nums1, nums2, i, j)
    IN  IF imin > imax
        THEN <<[i |-> imin, j |-> 0, branch |-> "fell_through", reads |-> {}]>>
        ELSE IF pass.branch = "right"
        THEN <<pass>> \o loop_passes(nums1, nums2, i + 1, imax)
        ELSE IF pass.branch = "left"
        THEN <<pass>> \o loop_passes(nums1, nums2, imin, i - 1)
        ELSE <<pass>>

\* The passes of one call.
search_passes(nums1, nums2) ==
    LET arrays == shorter_first(nums1, nums2)
    IN  loop_passes(arrays[1], arrays[2], 0, Len(arrays[1]))

\* The sorted arrays of at most MaxArrayLen values.
SortedArrays ==
    {s \in UNION {[1..n -> ArrayValues] : n \in 0..MaxArrayLen} :
        \A k \in 1..(Len(s) - 1) : s[k] <= s[k + 1]}

FindMedianInputs == SortedArrays \X SortedArrays

(***************************************************************************)
(* extract_code_block of Quasi-Agent.py, beside the one of                 *)
(* quasi_agent_improved.py                                                  *)
(***************************************************************************)
MaxReplyLen == 4

ReplyChars == {"a", "SP", "LF", "FENCE", "PY", "PYU"}

ReplyInputs == {<<r>> : r \in UNION {[1..n -> ReplyChars] : n \in 0..MaxReplyLen}}

\* extract_code_block of Quasi-Agent.py: the response as it is when it has
\* no fence; otherwise the stripped first fenced part, without a leading
\* lower-case "python" and not stripped again.
extract_code_block_minimal(response) ==
    IF ~HasFence(response) THEN response
    ELSE LET code_block == Strip(SecondPart(response))
         IN  IF code_block # <<>> /\ Head(code_block) = "PY"
             THEN Tail(code_block)
             ELSE code_block

(***************************************************************************)
(* Environment.execute_action of a_sample_agent_framework_improved.py on   *)
(* any Action: the function of an Action is any callable.                  *)
(***************************************************************************)
\* What the body of a handler does once its arguments are bound: it returns
\* a value, raises TypeError (an operation on a value of the wrong type) or
\* raises another Exception.
HandlerBodies == {"returns", "raises_TypeError", "raises_ValueError"}

\* The parameters of a handler, none of them with a default.
HandlerParams == {{}, {"name"}, {"name", "mode"}}

ActionObjects == [params : HandlerParams, body : HandlerBodies]

\* The args of an invocation: a JSON object with its keys, or a JSON array.
InvocationArgs ==
    {[shape |-> "map", keys |-> K] : K \in SUBSET {"name", "mode", "extra"}}
    \cup {[shape |-> "list", keys |-> {}]}

\* function(**args) binds: args is a mapping with exactly the parameters.
Binds(action, args) == args.shape = "map" /\ args.keys = action.params

\* Action.execute: self.function(**kwargs).  A call that does not bind
\* raises TypeError before the body runs.
Action_execute(action, args) ==
    IF ~Binds(action, args)
    THEN [raised |-> TRUE, value |-> <<"TypeError", "call">>]
    ELSE IF action.body = "raises_TypeError"
    THEN [raised |-> TRUE, value |-> <<"TypeError", "body">>]
    ELSE IF action.body = "raises_ValueError"
    THEN [raised |-> TRUE, value |-> <<"ValueError", "body">>]
    ELSE [raised |-> FALSE, value |-> <<"value", action.params>>]

\* Environment.format_result
format_result(result) ==
    [tool_executed |-> TRUE, result |-> result, error |-> <<>>]

\* Environment.execute_action: "except TypeError" gives the error the prefix
\* "Invalid arguments: ", "except Exception" gives str(e) alone.  The
\* handlers see the type of the exception, not where it was raised.
Environment_execute_action(action, args) ==
    LET outcome == Action_execute(action, args)
    IN  IF ~outcome.raised THEN format_result(outcome.value)
        ELSE IF outcome.value[1] = "TypeError"
        THEN [tool_executed |-> FALSE, result |-> <<>>,
              error |-> <<"Invalid arguments">> \o outcome.value]
        ELSE [tool_executed |-> FALSE, result |-> <<>>, error |-> outcome.value]

ExecuteActionInputs == ActionObjects \X InvocationArgs

(***************************************************************************)
(* The Memory object of Agent.run: objects are told apart by identity.     *)
(***************************************************************************)
MaxItems == 2
MaxRunIterations == 2

\* A Memory object: who created it and its items.
MemoryObject(id, items) == [id |-> id, items |-> items]

\* The Memory objects a caller can pass: the items are earlier user items.
OldItem == Msg("user", "earlier", NoArg, NoArgs, <<>>)
CallerMemories == {MemoryObject("caller", [i \in 1..n |-> OldItem]) : n \in 0..MaxItems}

\* bool(memory): None is false; Memory defines __len__ and no __bool__, so a
\* Memory without items is false as well.
Truthy(passed) == ~IsNone(passed) /\ Len(Val(passed).items) > 0

\* "memory = memory or Memory()"
memory_or_new(passed) ==
    IF Truthy(passed) THEN Val(passed) ELSE MemoryObject("run", <<>>)

\* The items one run adds to its memory: the task, then the assistant and
\* the environment item of each iteration, here with a model that lists the
\* files every time.
RECURSIVE RunItems(_)
RunItems(n) ==
    IF n = 0 THEN <<TaskMsg>>
    ELSE RunItems(n - 1)
           \o GameIteration(Resp("tool_call", "list_project_files", NoArgs)).mem

\* Agent.run as far as its memory goes: the object it returns, and the
\* caller's object as the run leaves it.
Agent_run(passed, max_iterations_arg) ==
    LET used == memory_or_new(passed)
        final == MemoryObject(used.id, used.items \o RunItems(max_iterations_arg))
    IN  [returned |-> final,
         callers |-> IF IsNone(passed) THEN None
                     ELSE IF used.id = "caller" THEN Some(final) ELSE passed]

AgentRunInputs ==
    ({None} \cup {Some(m) : m \in CallerMemories}) \X (0..MaxRunIterations)

AlgoFunctions ==
    {"make_filename", "make_filename_minimal", "read_file", "list_files",
     "read_all_files", "fibonacci", "insert_interval", "max_running_time",
                  "find_median_sorted_arrays", "extract_code_block",
                  "extract_code_block_minimal", "execute_action", "Agent.run"}

AlgoInputs(f) ==
    IF f \in {"make_filename", "make_filename_minimal"}
    THEN {<<d>> : d \in DescriptionInputs}
    ELSE IF f = "read_file"
    THEN {<<v, node>> : v \in ToolVersions, node \in FsNodes}
    ELSE IF f = "list_files"
    THEN {<<v, node>> : v \in {"improved", "improved2"}, node \in FsNodes}
         \cup {<<"earliest", node>> : node \in Directories \cup {LockedDir}}
    ELSE IF f = "read_all_files"
    THEN {<<"improved2", node>> : node \in FsNodes}
    ELSE IF f = "fibonacci" THEN FibonacciInputs
    ELSE IF f = "insert_interval" THEN InsertIntervalInputs
    ELSE IF f = "max_running_time" THEN MaxRunningTimeInputs
    ELSE IF f = "find_median_sorted_arrays" THEN FindMedianInputs
    ELSE IF f \in {"extract_code_block", "extract_code_block_minimal"} THEN ReplyInputs
    ELSE IF f = "execute_action" THEN ExecuteActionInputs
    ELSE IF f = "Agent.run" THEN AgentRunInputs
    ELSE {}

\* The call returns `value` and leaves the caller's objects as `after`.
Return(value, after) ==
    /\ a_pc' = "returned"
    /\ a_result' = value
    /\ a_after' = after
    /\ UNCHANGED <<a_fn, a_args>>

\* The call raises `exception`; the caller's objects are left as `after`.
Raise(exception, after) ==
    /\ a_pc' = "raised"
    /\ a_result' = exception
    /\ a_after' = after
    /\ UNCHANGED <<a_fn, a_args>>

Finish(outcome, after) ==
    IF outcome.raised THEN Raise(outcome.value, after) ELSE Return(outcome.value, after)

CallMakeFilename ==
    /\ a_pc = "called"
    /\ a_fn = "make_filename"
    /\ Return(make_filename(a_args[1]), a_args)
    /\ UNCHANGED notAlgoVars

CallMakeFilenameMinimal ==
    /\ a_pc = "called"
    /\ a_fn = "make_filename_minimal"
    /\ Return(make_filename_minimal(a_args[1]), a_args)
    /\ UNCHANGED notAlgoVars

CallReadFile ==
    /\ a_pc = "called"
    /\ a_fn = "read_file"
    /\ Finish(read_file(a_args[1], a_args[2]), a_args)
    /\ UNCHANGED notAlgoVars

CallListFiles ==
    /\ a_pc = "called"
    /\ a_fn = "list_files"
    /\ IF a_args[1] = "earliest"
       THEN \E order \in Listings(a_args[2]) :
               Finish(list_files_earliest(a_args[2], order), a_args)
       ELSE Finish(list_files(a_args[1], a_args[2]), a_args)
    /\ UNCHANGED notAlgoVars

CallReadAllFiles ==
    /\ a_pc = "called"
    /\ a_fn = "read_all_files"
    /\ Finish(read_all_files(a_args[2]), a_args)
    /\ UNCHANGED notAlgoVars

CallFibonacci ==
    /\ a_pc = "called"
    /\ a_fn = "fibonacci"
    /\ Return(fibonacci(a_args[1]), a_args)
    /\ UNCHANGED notAlgoVars

CallInsertInterval ==
    /\ a_pc = "called"
    /\ a_fn = "insert_interval"
    /\ LET r == insert_interval(a_args[1], a_args[2])
       IN  Return(r.result, <<r.intervals, r.new_interval>>)
    /\ UNCHANGED notAlgoVars

CallMaxRunningTime ==
    /\ a_pc = "called"
    /\ a_fn = "max_running_time"
    /\ Return(max_running_time(a_args[1], a_args[2]), a_args)
    /\ UNCHANGED notAlgoVars

CallFindMedianSortedArrays ==
    /\ a_pc = "called"
    /\ a_fn = "find_median_sorted_arrays"
    /\ Finish(find_median_sorted_arrays(a_args[1], a_args[2]), a_args)
    /\ UNCHANGED notAlgoVars

CallExtractCodeBlock ==
    /\ a_pc = "called"
    /\ a_fn = "extract_code_block"
    /\ Return(extract_code_block(a_args[1]), a_args)
    /\ UNCHANGED notAlgoVars

CallExtractCodeBlockMinimal ==
    /\ a_pc = "called"
    /\ a_fn = "extract_code_block_minimal"
    /\ Return(extract_code_block_minimal(a_args[1]), a_args)
    /\ UNCHANGED notAlgoVars

CallExecuteAction ==
    /\ a_pc = "called"
    /\ a_fn = "execute_action"
    /\ Return(Environment_execute_action(a_args[1], a_args[2]), a_args)
    /\ UNCHANGED notAlgoVars

CallAgentRun ==
    /\ a_pc = "called"
    /\ a_fn = "Agent.run"
    /\ LET run == Agent_run(a_args[1], a_args[2])
       IN  Return(run.returned, <<run.callers, a_args[2]>>)
    /\ UNCHANGED notAlgoVars

AlgoInit ==
    /\ a_fn \in AlgoFunctions
    /\ a_args \in AlgoInputs(a_fn)
    /\ a_pc = "called"
    /\ a_result = <<>>
    /\ a_after = a_args

\* No function of this part is called.
AlgoOff ==
    /\ a_fn = "none"
    /\ a_args = <<>>
    /\ a_pc = "returned"
    /\ a_result = <<>>
    /\ a_after = <<>>

AlgoNext ==
    \/ CallMakeFilename
    \/ CallMakeFilenameMinimal
    \/ CallReadFile
    \/ CallListFiles
    \/ CallReadAllFiles
    \/ CallFibonacci
    \/ CallInsertInterval
    \/ CallMaxRunningTime
    \/ CallFindMedianSortedArrays
    \/ CallExtractCodeBlock
    \/ CallExtractCodeBlockMinimal
    \/ CallExecuteAction
    \/ CallAgentRun

(***************************************************************************)
(* The entry points of the scripts: what main() does, in order, and where  *)
(* its "except KeyboardInterrupt" applies.                                 *)
(***************************************************************************)
MaxMainSteps == 5

AgentScripts == {"agent_tools_improved", "agent_loop_improved", "agent_loop2_improved"}

Scripts ==
    AgentScripts \cup {"framework", "quasi_agent_improved", "main_improved",
                       "improved_llm_function", "main"}

\* The scripts whose main() has an "except KeyboardInterrupt" clause.
HasInterruptHandler(script) == script \in AgentScripts \cup {"framework", "quasi_agent_improved"}

\* What such a main() does before it enters its try statement.
OutsideTry(script) ==
    IF script \in AgentScripts THEN {"validate_key", "prompt"} ELSE {"validate_key"}

Guarded(script, phase) == HasInterruptHandler(script) /\ phase \notin OutsideTry(script)

\* The scripts that retry rate-limited calls, and those that run tools.
HasBackoff(script) == script \in {"quasi_agent_improved", "main_improved", "main"}
HasTools(script) == script \in AgentScripts \cup {"framework", "improved_llm_function"}

Goes(phase) == [phase |-> phase, exit |-> "running"]
Exits(status) == [phase |-> "exited", exit |-> status]

FirstPhase(script, mock) ==
    IF script = "improved_llm_function" THEN "prompt"
    ELSE IF script = "main" THEN (IF mock THEN "report" ELSE "model_call")
    ELSE IF script = "quasi_agent_improved" /\ mock THEN "prompt"
    ELSE "validate_key"

\* What can follow a phase when no interrupt arrives.
Successors(script, phase, task_flag, mock, key) ==
    IF phase = "validate_key"
    THEN IF ~key THEN {Exits("1")}
         ELSE IF script \in AgentScripts
         THEN {Goes(IF task_flag THEN "model_call" ELSE "prompt")}
         ELSE IF script = "quasi_agent_improved" THEN {Goes("prompt")}
         ELSE IF script = "main_improved" /\ mock THEN {Goes("report")}
         ELSE {Goes("model_call")}
    ELSE IF phase = "prompt"
    THEN {Goes(IF script = "quasi_agent_improved" /\ mock THEN "save" ELSE "model_call"),
          Exits(IF script = "improved_llm_function" THEN "0" ELSE "1")}
    ELSE IF phase = "model_call"
    THEN {Goes(IF script = "quasi_agent_improved" THEN "save" ELSE "report"),
          Exits(IF script = "main" THEN "Exception"
                ELSE IF script = "improved_llm_function" THEN "0" ELSE "1")}
         \cup (IF HasBackoff(script) THEN {Goes("backoff_sleep")} ELSE {})
         \cup (IF HasTools(script) THEN {Goes("tool_execution")} ELSE {})
    ELSE IF phase = "backoff_sleep" THEN {Goes("model_call")}
    ELSE IF phase = "tool_execution"
    THEN {Goes("report")}
         \cup (IF script = "improved_llm_function" THEN {} ELSE {Goes("model_call")})
    ELSE IF phase = "save" THEN {Goes("report")}
    ELSE {Exits("0")}

\* KeyboardInterrupt is no Exception: it ends the process with status 1
\* where main()'s "except KeyboardInterrupt" applies and escapes elsewhere.
on_keyboard_interrupt(script, phase) ==
    IF Guarded(script, phase) THEN "1" ELSE "KeyboardInterrupt"

Advance ==
    /\ m_exit = "running"
    /\ m_steps < MaxMainSteps
    /\ \E next \in Successors(m_script, m_phase, m_task_flag, m_mock, m_key) :
          /\ m_phase' = next.phase
          /\ m_exit' = next.exit
    /\ m_steps' = m_steps + 1
    /\ UNCHANGED <<m_script, m_task_flag, m_mock, m_key, m_interrupted>>
    /\ UNCHANGED notMainVars

KeyboardInterrupt ==
    /\ m_exit = "running"
    /\ m_interrupted' = m_phase
    /\ m_exit' = on_keyboard_interrupt(m_script, m_phase)
    /\ m_phase' = "exited"
    /\ UNCHANGED <<m_script, m_task_flag, m_mock, m_key, m_steps>>
    /\ UNCHANGED notMainVars

MainInit ==
    /\ m_script \in Scripts
    /\ m_task_flag \in BOOLEAN
    /\ m_mock \in BOOLEAN
    /\ m_key \in BOOLEAN
    /\ m_phase = FirstPhase(m_script, m_mock)
    /\ m_steps = 0
    /\ m_interrupted = "none"
    /\ m_exit = "running"

\* No script runs.
MainOff ==
    /\ m_script = "none"
    /\ m_task_flag = FALSE
    /\ m_mock = FALSE
    /\ m_key = FALSE
    /\ m_phase = "exited"
    /\ m_steps = 0
    /\ m_interrupted = "none"
    /\ m_exit = "0"

MainNext ==
    \/ Advance
    \/ KeyboardInterrupt

\* No generation call runs.
GenOff == GenInit("off") /\ platform = "posix"

LoopNext ==
    \/ Iterate
    \/ AfterLoop
    \/ SingleShot

\* One run of an agent loop or of a single-shot demo against any model.
InitLoop == LoopInit /\ GenOff /\ RegOff /\ QaOff /\ AlgoOff /\ MainOff

SpecLoop == InitLoop /\ [][LoopNext]_vars

\* No agent loop runs.
LoopOff ==
    /\ variant = "none"
    /\ max_iterations = 0
    /\ iteration = 0
    /\ requests = 0
    /\ memory = <<>>
    /\ lpc = "done"
    /\ crash = "none"
    /\ output = <<>>
    /\ toolruns = 0
    /\ responses = <<>>
    /\ rep = NoResp
    /\ verbose = FALSE
    /\ sent = <<>>

\* One call of call_with_retries or generate_response, any arguments.
InitRetry == GenInit("retry") /\ LoopOff /\ RegOff /\ QaOff /\ AlgoOff /\ MainOff

SpecRetry == InitRetry /\ [][GenNext]_vars

\* A sequence of generate_response calls by one process.
InitCache == GenInit("cache") /\ LoopOff /\ RegOff /\ QaOff /\ AlgoOff /\ MainOff

SpecCache == InitCache /\ [][GenNext]_vars

\* Two processes running generate_response against one cache directory.
InitConc == GenInit("conc") /\ LoopOff /\ RegOff /\ QaOff /\ AlgoOff /\ MainOff

SpecConc == InitConc /\ [][GenNext]_vars

InitRegistry == RegInit /\ GenOff /\ LoopOff /\ QaOff /\ AlgoOff /\ MainOff

\* Any sequence of register and get_action calls on one ActionRegistry.
SpecRegistry == InitRegistry /\ [][RegNext]_vars

InitPipeline == QaInit /\ GenInit("off") /\ LoopOff /\ RegOff /\ AlgoOff /\ MainOff

\* Successive runs of the quasi-agent program in one working directory, with
\* any description, flags and model replies.
SpecPipeline == InitPipeline /\ [][QaNext]_vars

InitAlgo == AlgoInit /\ GenOff /\ LoopOff /\ RegOff /\ QaOff /\ MainOff

\* One call of one pure function, any arguments.
SpecAlgo == InitAlgo /\ [][AlgoNext]_vars

InitMain == MainInit /\ GenOff /\ LoopOff /\ RegOff /\ QaOff /\ AlgoOff

\* One run of one script, with a keyboard interrupt possible at any point.
SpecMain == InitMain /\ [][MainNext]_vars

(***************************************************************************)
(* Properties of the retry loop.                                           *)
(***************************************************************************)
AllRateLimited(h) == \A i \in 1..Len(h) : h[i] = "rl"

RateLimitsThenSuccess(h) ==
    /\ Len(h) >= 1
    /\ h[Len(h)] = "ok"
    /\ AllRateLimited(SubSeq(h, 1, Len(h) - 1))

\* C3: when the completion service raises a rate-limit error on k consecutive
\* attempts (k < max_attempts) and then succeeds, exactly k+1 attempts are
\* made, the sleep before attempt i+1 is base_sleep * 2^(i-1) for i in 1..k,
\* and the successful response is what the call returns.
C3_BackoffThenSuccess ==
    \A p \in Procs :
        LET k == Len(hist[p]) - 1 IN
        (RateLimitsThenSuccess(hist[p]) /\ k < retries[p]) =>
            /\ attempt[p] = k + 1
            /\ pc[p] \in {"write_cache", "returned"}
            /\ exc[p] = "none"
            /\ Len(sleeps[p]) = k
            /\ \A i \in 1..k : sleeps[p][i] = base_sleep[p] * Pow2(i - 1)
            /\ pc[p] = "returned" => ret[p] = text[p]

C3_Witness ==
    \E p \in Procs :
        /\ fn[p] = "call_with_retries"
        /\ hist[p] = <<"rl", "rl", "ok">>
        /\ base_sleep[p] = 2
        /\ sleeps[p] = <<2, 4>>
        /\ pc[p] = "returned"

\* C4: when every attempt fails with a rate-limit error the call ends by
\* raising that error after exactly max_attempts attempts (one attempt when
\* max_attempts < 1), having slept after every failed attempt but the last.
C4_RaiseAfterMaxAttempts ==
    \A p \in Procs :
        (hist[p] # <<>> /\ AllRateLimited(hist[p])) =>
            /\ attempt[p] = Len(hist[p])
            /\ Len(hist[p]) <= Max2(1, retries[p])
            /\ IF Len(hist[p]) = Max2(1, retries[p])
               THEN /\ pc[p] = "raised"
                    /\ exc[p] = "RateLimitError"
                    /\ Len(sleeps[p]) = Len(hist[p]) - 1
               ELSE /\ pc[p] = "retry_loop"
                    /\ Len(sleeps[p]) = Len(hist[p])

C4_Witness ==
    \E p \in Procs :
        /\ retries[p] = 3
        /\ hist[p] = <<"rl", "rl", "rl">>
        /\ pc[p] = "raised"
        /\ Len(sleeps[p]) = 2

\* C5: an error other than rate-limit raised on any attempt, also after
\* earlier rate-limit retries, is re-raised at once: it is the last attempt
\* of the call and no sleep follows it.
C5_OtherErrorNotRetried ==
    \A p \in Procs :
        (\E i \in 1..Len(hist[p]) : hist[p][i] = "err") =>
            /\ Last(hist[p]) = "err"
            /\ AllRateLimited(SubSeq(hist[p], 1, Len(hist[p]) - 1))
            /\ attempt[p] = Len(hist[p])
            /\ pc[p] = "raised"
            /\ exc[p] = "OtherError"
            /\ Len(sleeps[p]) = Len(hist[p]) - 1

C5_Witness ==
    \E p \in Procs :
        /\ hist[p] = <<"rl", "err">>
        /\ pc[p] = "raised"
        /\ sleeps[p] = <<base_sleep[p]>>

(***************************************************************************)
(* Properties of the response cache.                                       *)
(***************************************************************************)
KeyOf(p) == make_cache_key(request[p])

\* C6: of two successive generate_response calls with identical messages and
\* options and a cache directory configured, the first of which returned,
\* the second makes no completion request (at most one request succeeded in
\* total) and returns text identical to what the first call returned.
C6_SecondCallIdentical ==
    \A p \in Procs :
        (/\ pc[p] = "returned"
         /\ cache_dir[p]
         /\ prev[p].returned
         /\ prev[p].cache_dir
         /\ prev[p].request = request[p]) =>
            /\ hist[p] = <<>>
            /\ prev[p].oks <= 1
            /\ ret[p] = prev[p].ret

\* The part of C6 that the code does guarantee: the second call is served
\* from the cache without a completion request.
C6_SecondCallIsHit ==
    \A p \in Procs :
        (/\ pc[p] = "returned"
         /\ cache_dir[p]
         /\ prev[p].returned
         /\ prev[p].cache_dir
         /\ prev[p].request = request[p]) =>
            /\ hist[p] = <<>>
            /\ prev[p].oks <= 1

\* C7: within one process a cache entry once written is never rewritten or
\* changed: each key is written at most once, an existing entry keeps its
\* content, and a request whose entry exists never reaches the retry loop.
C7_EntriesWrittenOnce ==
    /\ [](\A k \in CacheKeys : wcount[k] <= 1)
    /\ [][\A k \in CacheKeys : ~IsNone(cache[k]) => cache'[k] = cache[k]]_vars
    /\ [][\A p \in Procs :
            (pc[p] # "retry_loop" /\ pc'[p] = "retry_loop" /\ cache_dir'[p])
                => IsNone(cache[make_cache_key(request'[p])])]_vars

C7_Witness ==
    \E p \in Procs :
        /\ ncalls[p] = 2
        /\ cache_dir[p]
        /\ pc[p] = "returned"
        /\ hist[p] = <<>>
        /\ wcount[KeyOf(p)] = 1
        /\ prev[p].request = request[p]

AgentLoops == {"earliest", "native", "native2", "markdown"}
NativeLoops == {"earliest", "native", "native2"}

\* A well-formed call of a tool other than terminate.
NonTerminateCall(r) ==
    r.kind = "tool_call" /\ r.name # "terminate" /\ r.args.shape = "map"

\* A call of terminate with a message and nothing else.
TerminateWithMessage(r) ==
    /\ r.kind = "tool_call"
    /\ r.name = "terminate"
    /\ r.args.shape = "map"
    /\ r.args.keys = {"message"}

Reported(ev) == \E i \in 1..Len(output) : output[i] = ev

\* The program reported the termination message m in full.
ReportedMessage(m) ==
    \/ Reported(Event("terminated", <<m>>))
    \/ Reported(Event("result", <<"AGENT SUMMARY", m>>))

\* C1: in every agent loop, while the model answers every request with a
\* non-terminate tool call, no more than max_iterations completion requests
\* are sent (10 in the earliest loops) and the run does not crash; when the
\* program has ended, exactly max_iterations requests were sent and
\* exhaustion was reported.
C1_StopsAtMaxIterations ==
    (/\ variant \in AgentLoops
     /\ responses # <<>>
     /\ \A i \in 1..Len(responses) : NonTerminateCall(responses[i])) =>
        /\ requests <= max_iterations
        /\ lpc # "crashed"
        /\ lpc = "done" =>
            /\ requests = max_iterations
            /\ Reported(Event("exhausted", <<>>))

\* C2: in the native function-calling loops, when the k-th of a sequence of
\* tool-call responses selects terminate with a message, the loop stops at
\* iteration k: k requests were sent and none follows, the message is
\* reported, and no tool runs after it.
C2_StopsAtTerminate ==
    variant \in NativeLoops =>
        \A k \in 1..Len(responses) :
            (/\ TerminateWithMessage(responses[k])
             /\ \A j \in 1..k : responses[j].kind = "tool_call") =>
                /\ k = Len(responses)
                /\ requests = k
                /\ lpc \in {"after", "done"}
                /\ ReportedMessage(responses[k].args.message)
                /\ toolruns <= k
                /\ Len(memory) = Len(InitialMemory(variant)) + 2 * (k - 1)

\* C9: in the improved native loops and the markdown loop, whatever tool name
\* the model chooses (terminate included) and whatever argument mapping it
\* supplies (missing or extra arguments included), the tool call does not
\* end the program with an exception.
C9_NoToolExceptionEscapes ==
    (/\ variant \in {"native", "native2", "markdown"}
     /\ responses # <<>>
     /\ Last(responses).kind = "tool_call"
     /\ Last(responses).args.shape = "map") =>
        lpc # "crashed"

\* C10: in every program that dispatches a tool by name (agent loops, GAME
\* agent, single-shot demos), a call of a tool that the registry does not
\* hold is reported as an error and does not end the program with an
\* exception.
C10_UnknownToolRecoverable ==
    (/\ variant \in Variants
     /\ responses # <<>>
     /\ Last(responses).kind = "tool_call"
     /\ Last(responses).name = "no_such_tool"
     /\ Last(responses).args.shape = "map") =>
        /\ lpc # "crashed"
        /\ \E i \in 1..Len(output) : output[i].ev = "error"

\* The step sent a completion request and `r` is the response it got.
Answered(r) == responses' = Append(responses, r)

\* A well-formed call of a tool that is neither terminate nor registered.
UnknownToolCall(v, r) ==
    /\ r.kind = "tool_call"
    /\ r.name \notin (Registry(v) \cup {"terminate"})
    /\ r.args.shape = "map"

Diagnostic(kind) ==
    IF kind = "text" THEN "Failed to parse action JSON"
    ELSE IF kind = "json_number" THEN "Error parsing action"
    ELSE "Action must contain 'tool_name' and 'args' fields"

\* C12: in the markdown loop a response whose action block is not valid JSON,
\* or whose JSON lacks tool_name or args, runs no tool and does not raise:
\* the raw response and an error result carrying the diagnostic are appended
\* to memory, in that order, and the loop goes on (or ends at the iteration
\* cap).
C12_MalformedActionContinues ==
    [][\A r \in Responses(variant) :
        (/\ variant = "markdown"
         /\ Answered(r)
         /\ r.kind \in MalformedActionKinds) =>
            /\ crash' = "none"
            /\ toolruns' = toolruns
            /\ memory' = memory \o
                 <<RawMsg(r), ResultMsg("user", "error", <<Diagnostic(r.kind)>>)>>
            /\ lpc' = IF iteration' >= max_iterations THEN "done" ELSE "loop"]_vars

\* The part of C12 the code does guarantee: responses that are not valid
\* JSON, JSON numbers, and JSON objects or arrays without the keys.
C12_ExceptJsonStrings ==
    [][\A r \in Responses(variant) :
        (/\ variant = "markdown"
         /\ Answered(r)
         /\ r.kind \in MalformedActionKinds \ {"json_string"}) =>
            /\ crash' = "none"
            /\ toolruns' = toolruns
            /\ memory' = memory \o
                 <<RawMsg(r), ResultMsg("user", "error", <<Diagnostic(r.kind)>>)>>
            /\ lpc' = IF iteration' >= max_iterations THEN "done" ELSE "loop"]_vars

(***************************************************************************)
(* Properties of the ActionRegistry.                                       *)
(***************************************************************************)
\* The action most recently registered under `name` in the log, if any.
RECURSIVE MostRecent(_, _)
MostRecent(log, name) ==
    IF log = <<>> THEN None
    ELSE IF Last(log).name = name THEN Some(Last(log))
    ELSE MostRecent(SubSeq(log, 1, Len(log) - 1), name)

\* C13: after any sequence of register calls, get_action(name) returns the
\* action most recently registered under that name (an earlier one is no
\* longer retrievable) and None, without raising, for a name never
\* registered.
C13_LastRegisteredWins ==
    /\ \A name \in ActionNames :
        get_action(reg_actions, name) = MostRecent(reg_log, name)
    /\ reg_got.name # "none" =>
        reg_got.result = MostRecent(SubSeq(reg_log, 1, reg_got.at), reg_got.name)

C13_Witness ==
    /\ Len(reg_log) = 3
    /\ reg_log[1].name = "n1" /\ reg_log[3].name = "n1"
    /\ reg_log[1].id # reg_log[3].id
    /\ reg_log[2].name = "n1"
    /\ reg_got = [name |-> "n1", result |-> Some(reg_log[3]), at |-> 3]

(***************************************************************************)
(* Properties of the GAME agent (Agent.run).                               *)
(***************************************************************************)
\* The response reaches get_action and its tool name is in the registry.
Resolves(r) ==
    /\ \/ r.kind = "text"
       \/ r.kind = "tool_call" /\ r.args.shape # "badjson"
    /\ parse_response(r).name \in Registry("game")

\* After a run has left its loop nothing is generated, executed or stored.
NothingAfterStop ==
    lpc \in {"after", "done", "crashed"} =>
        /\ responses' = responses
        /\ requests' = requests
        /\ memory' = memory
        /\ toolruns' = toolruns

C15_PlainTextTerminates ==
    [][\A r \in Responses(variant) :
        (variant = "game" /\ Answered(r) /\ r.kind = "text") =>
            /\ toolruns' = toolruns + 1
            /\ memory' = memory \o
                 <<RawMsg(r), ResultMsg("environment", "result", <<"SUMMARY", r.name>>)>>
            /\ output' = output \o
                 <<Event("result", <<"SUMMARY", r.name>>), Event("completed", <<>>)>>
            /\ lpc' = "after"
            /\ crash' = "none"]_vars

C15_Witness ==
    /\ variant = "game"
    /\ responses = <<Resp("text", "t2", NoArgs)>>
    /\ lpc = "done"
    /\ toolruns = 1
    /\ memory[3] = ResultMsg("environment", "result", <<"SUMMARY", "t2">>)

\* C16: in Agent.run, when the parsed tool name does not resolve in the
\* registry the run stops in that iteration without raising: no action is
\* executed, nothing is appended to memory, the failure is reported and no
\* further response is generated.
C16_UnknownActionStopsRun ==
    /\ [][\A r \in Responses(variant) :
            (/\ variant = "game"
             /\ Answered(r)
             /\ r.kind = "tool_call"
             /\ r.args.shape # "badjson"
             /\ r.name \notin Registry("game")) =>
                /\ toolruns' = toolruns
                /\ memory' = memory
                /\ output' = Append(output, Event("error", <<"Unknown action", r.name>>))
                /\ lpc' = "after"
                /\ crash' = "none"]_vars
    /\ [][lpc = "after" => lpc' = "done"]_vars
    /\ [][NothingAfterStop]_vars

C16_Witness ==
    /\ variant = "game"
    /\ Len(responses) = 2
    /\ responses[1].name = "list_project_files"
    /\ responses[2].kind = "tool_call"
    /\ responses[2].name = "no_such_tool"
    /\ lpc = "done"
    /\ crash = "none"
    /\ Len(memory) = 3
    /\ toolruns = 1

\* The response-generation function raised: the completion request failed or
\* the tool call's arguments are not JSON.
GenerationRaises(r) ==
    r.kind = "llm_error" \/ (r.kind = "tool_call" /\ r.args.shape = "badjson")

\* C17: in Agent.run an exception raised by the response-generation function
\* aborts the run in that iteration: no action is executed, memory stays as
\* it was at the start of the iteration, the call is not repeated and the
\* run returns normally.
C17_GenerationErrorAbortsRun ==
    /\ [][\A r \in Responses(variant) :
            (variant = "game" /\ Answered(r) /\ GenerationRaises(r)) =>
                /\ toolruns' = toolruns
                /\ memory' = memory
                /\ lpc' = "after"
                /\ crash' = "none"]_vars
    /\ [][(variant = "game" /\ responses # <<>> /\ GenerationRaises(Last(responses)))
            => requests' = requests /\ lpc' = "done"]_vars

C17_Witness ==
    /\ variant = "game"
    /\ Len(responses) = 2
    /\ responses[1].name = "list_project_files"
    /\ responses[2].kind = "llm_error"
    /\ lpc = "done"
    /\ crash = "none"
    /\ requests = 2
    /\ Len(memory) = 3

\* The conversation is the system message followed by k requests, each
\* immediately followed by an assistant reply.
Alternates(msgs, k) ==
    /\ Len(msgs) = 1 + 2 * k
    /\ msgs[1] = SystemPrompt
    /\ \A i \in 1..k : msgs[2 * i].role = "user" /\ msgs[2 * i + 1].role = "assistant"

\* The request of step j went out with everything before it in the conversation.
SentWithHistory ==
    \A j \in 1..Len(q_sent) : q_sent[j] = SubSeq(q_messages, 1, 2 * j)

\* C18: after step k (k = 1, 2, 3) of the quasi-agent pipeline the conversation
\* is the system message followed by k user requests, each immediately followed
\* by an assistant reply, and every request of a later step is sent with all
\* earlier requests and replies before it.
C18_EveryStepAppendsRequestAndReply ==
    (q_pc \in {"step", "save", "done"} /\ q_step >= 1) =>
        Alternates(q_messages, q_step) /\ SentWithHistory

\* What the pipeline does keep: steps 1 and 2 append request and (extracted,
\* fenced again) reply, step 3 appends its request alone, and every request
\* is sent with the whole conversation before it.
C18_TwoRepliesAppended ==
    (q_pc \in {"step", "save", "done"} /\ q_step >= 1) =>
        /\ SentWithHistory
        /\ IF q_step < 3 THEN Alternates(q_messages, q_step)
           ELSE /\ Alternates(SubSeq(q_messages, 1, 5), 2)
                /\ q_messages = Append(SubSeq(q_messages, 1, 5), UserRequest(3, q_description))
        /\ \A i \in 1..q_step : i < 3 => q_messages[2 * i + 1] = AssistantReply(q_code[i])

\* The current run repeats the previous, completed run: same description,
\* both against the model and with caching enabled.
RepeatsPreviousRun ==
    /\ q_pc = "done"
    /\ q_prev.completed
    /\ q_prev.description = q_description
    /\ ~q_mock /\ ~q_prev.mock
    /\ q_cache_enabled /\ q_prev.cache_enabled

\* C19: a second run of the quasi-agent pipeline with the same description and
\* options and caching enabled, after a first run that completed, makes no
\* completion request and writes the same file name and file content.
C19_SecondRunReusesFirst ==
    RepeatsPreviousRun => q_calls = 0 /\ q_saved = q_prev.saved

HasCR(s) == \E i \in 1..Len(s) : s[i] = "CR"

\* The same, for first runs whose texts hold no carriage return.
C19_ReusedWithoutCarriageReturns ==
    (RepeatsPreviousRun /\ \A i \in 1..Len(q_prev.texts) : ~HasCR(q_prev.texts[i]))
        => q_calls = 0 /\ q_saved = q_prev.saved

\* C20: in mock mode the quasi-agent pipeline makes no completion request and
\* reads or writes no cache entry at any step, uses the fixed placeholder text
\* at each step, never raises, and writes the output file under the name
\* derived from the description.
C20_MockModeBypassesModelAndCache ==
    q_mock =>
        /\ q_calls = 0 /\ q_reads = 0 /\ q_writes = 0
        /\ q_cache = q_cache0
        /\ q_sent = <<>>
        /\ q_pc # "raised"
        /\ \A k \in 1..q_step :
              /\ q_texts[k] = MockText(k, <<"def mock_function():", "LF", "return 'mock'">>)
              /\ q_code[k] = q_texts[k]
        /\ q_pc = "done" =>
              LET filename == make_filename(q_description)
              IN  /\ q_step = 3
                  /\ filename \in DOMAIN q_files
                  /\ q_saved = Some(<<filename, q_files[filename]>>)
                  /\ q_files[filename] =
                       EncodeNewlines(final_content(q_description, q_texts[2], q_texts[3]),
                                      platform)

C20_Witness ==
    /\ q_mock
    /\ q_cache_enabled
    /\ q_pc = "done"
    /\ q_run = 2
    /\ q_description = <<"A", "SP", "a">>
    /\ q_cache # <<>>
    /\ <<"a", "_", "a", ".py">> \in DOMAIN q_files

FilenameCalls == {"make_filename", "make_filename_minimal"}

LimitOf(f) == IF f = "make_filename" THEN FilenameLimit ELSE MinimalFilenameLimit

\* The name is a stem of at most the limit, then ".py".
WithinLimit ==
    /\ Len(a_result) >= 1
    /\ Last(a_result) = ".py"
    /\ Len(a_result) - 1 <= LimitOf(a_fn)

\* C21: for every description the derived file name is a stem of at most 40
\* characters (30 in the minimal version) made only of lower-case alphanumeric
\* characters and the joining "_", followed by ".py".
C21_FilenameStemIsClean ==
    (a_fn \in FilenameCalls /\ a_pc = "returned") =>
        /\ WithinLimit
        /\ \A i \in 1..(Len(a_result) - 1) : a_result[i] \in {"a", "_"}

\* What the derivation does guarantee: the cut and the extension for every
\* description, and the clean stem for descriptions whose only white space
\* is the space character.
C21_CleanWithoutOtherWhitespace ==
    (a_fn \in FilenameCalls /\ a_pc = "returned") =>
        /\ WithinLimit
        /\ (\A j \in 1..Len(a_args[1]) : a_args[1][j] # "TAB") =>
              \A i \in 1..(Len(a_result) - 1) : a_result[i] \in {"a", "_"}

\* A description longer than the limit is cut.
C21_CutReached ==
    /\ a_fn = "make_filename"
    /\ a_pc = "returned"
    /\ Len(a_args[1]) > FilenameLimit
    /\ Len(a_result) = FilenameLimit + 1

IsErrorString(v) == Len(v) = 2 /\ v[1] = "Error"

\* C22: read_file of a path that does not exist returns an error-carrying
\* string and does not raise; list_files of a directory that does not exist
\* returns a list of exactly one element that carries an error description
\* and does not raise; neither call changes the filesystem.
C22_MissingPathIsErrorAsData ==
    (a_fn \in {"read_file", "list_files"} /\ a_pc # "called" /\ a_args[2] = Missing) =>
        /\ a_pc = "returned"
        /\ a_after = a_args
        /\ a_fn = "read_file" => IsErrorString(a_result)
        /\ a_fn = "list_files" => Len(a_result) = 1 /\ IsErrorString(a_result[1])

C22_Witness ==
    /\ a_fn = "list_files"
    /\ a_args = <<"improved", Missing>>
    /\ a_pc = "returned"
    /\ a_result = <<ErrorString("Directory not found")>>

ReadAllFilesReturned == a_fn = "read_all_files" /\ a_pc = "returned"

\* The path is no directory that can be read.
InvalidDirectory(node) == node.type # "dir"

\* One entry per regular file: an error string for a file that is oversized
\* or cannot be decoded or read, the content for every other file.
OneEntryPerFile(node, result) ==
    /\ DOMAIN result = RegularFiles(node)
    /\ \A n \in RegularFiles(node) :
          IF node.entries[n] = "text" THEN result[n] = Content(n)
          ELSE IsErrorString(result[n])

\* C23: read_all_files returns a mapping with the single key 'error' exactly
\* when the directory itself is invalid and a mapping with the single key
\* 'info' exactly when the directory is empty; otherwise it returns one entry
\* per regular file, an error string for a failing file only.
C23_ErrorAndInfoExactly ==
    ReadAllFilesReturned =>
        LET node == a_args[2] IN
        /\ (DOMAIN a_result = {"error"}) <=> InvalidDirectory(node)
        /\ (DOMAIN a_result = {"info"}) <=> (node.type = "dir" /\ DOMAIN node.entries = {})
        /\ (~InvalidDirectory(node) /\ DOMAIN node.entries # {}) =>
              OneEntryPerFile(node, a_result)

\* C23 as the code has it: an invalid directory gives the single key 'error',
\* a directory without regular files (empty, or holding sub-directories only)
\* the single key 'info', and any other directory one entry per regular file,
\* where a file that happens to be named "error" or "info" is a key like any
\* other.
C23_ErrorInfoOrOneEntryPerFile ==
    ReadAllFilesReturned =>
        LET node == a_args[2] IN
        /\ a_after = a_args
        /\ InvalidDirectory(node) =>
              DOMAIN a_result = {"error"} /\ a_result["error"][1] = "message"
        /\ (node.type = "dir" /\ RegularFiles(node) = {}) =>
              DOMAIN a_result = {"info"} /\ a_result["info"][1] = "message"
        /\ (node.type = "dir" /\ RegularFiles(node) # {}) =>
              OneEntryPerFile(node, a_result)

\* A batch with one bad file and one good file.
C23_Witness ==
    /\ ReadAllFilesReturned
    /\ a_args[2] = DirNode([n \in {"error", "f1"} |->
                              IF n = "error" THEN "text" ELSE "binary"])
    /\ a_result["error"] = Content("error")
    /\ IsErrorString(a_result["f1"])

\* C24: in every script with a top-level entry point a keyboard interrupt
\* arriving at any point of the run (at the task prompt, while validating
\* the API key, during a model call, a backoff sleep or a tool execution) is
\* caught at the top level and the process ends with exit status 1.
C24_InterruptAlwaysExitsOne ==
    m_interrupted # "none" => m_exit = "1"

\* Where the interrupt is caught: in the scripts that have a handler, once
\* main() is past its API-key check (and, in the agent scripts, past its
\* task prompt).
C24_InterruptCaughtInsideTry ==
    (/\ m_interrupted \in {"model_call", "backoff_sleep", "tool_execution", "save", "report"}
     /\ m_script \in AgentScripts \cup {"framework", "quasi_agent_improved"})
        => m_exit = "1"

\* The Fibonacci number that follows the last element of a non-empty prefix
\* 0, 1, 1, 2, ... of the sequence.
NextFibonacci(r) == IF Len(r) = 1 THEN 1 ELSE r[Len(r)] + r[Len(r) - 1]

\* C25: fibonacci(n) is empty when n <= 0 and otherwise is the list 0, 1, 1,
\* 2, 3, ... of every Fibonacci number strictly less than n, in order: every
\* element is < n, result[k] = result[k-1] + result[k-2] from the third
\* element on, and the Fibonacci number after the last element is >= n.
C25_FibonacciBelowN ==
    (a_fn = "fibonacci" /\ a_pc = "returned") =>
        LET n == a_args[1]
            r == a_result
        IN  /\ n <= 0 => r = <<>>
            /\ n > 0 =>
                  /\ Len(r) >= 1 /\ r[1] = 0
                  /\ Len(r) >= 2 => r[2] = 1
                  /\ \A k \in 3..Len(r) : r[k] = r[k - 1] + r[k - 2]
                  /\ \A k \in 1..Len(r) : r[k] < n
                  /\ NextFibonacci(r) >= n

C25_Witness ==
    /\ a_fn = "fibonacci"
    /\ a_pc = "returned"
    /\ a_args = <<22>>
    /\ a_result = <<0, 1, 1, 2, 3, 5, 8, 13, 21>>

\* The points of the line are looked at in half units, so that the gap
\* between [1, 2] and [3, 4] holds a point.
Covers(list, p) == \E i \in 1..Len(list) : 2 * list[i][1] <= p /\ p <= 2 * list[i][2]

InsertIntervalReturned == a_fn = "insert_interval" /\ a_pc = "returned"

\* C26: for non-overlapping intervals sorted by start and a new interval
\* [s, e] with s <= e, insert_interval returns a list sorted by start, pairwise
\* non-overlapping, that covers exactly the points of the input intervals and
\* the new interval; for an empty list the result is the new interval alone.
C26_InsertKeepsSortedDisjointCover ==
    InsertIntervalReturned =>
        LET intervals == a_args[1]
            new_interval == a_args[2]
        IN  /\ \A i \in 1..Len(a_result) : a_result[i][1] <= a_result[i][2]
            /\ SortedDisjoint(a_result)
            /\ SortedApart(intervals) => SortedApart(a_result)
            /\ \A p \in 0..(2 * MaxCoord) :
                  Covers(a_result, p) <=>
                      (Covers(intervals, p) \/ Covers(<<new_interval>>, p))
            /\ intervals = <<>> => a_result = <<new_interval>>

\* The new interval bridges two intervals of the list.
C26_Witness ==
    /\ InsertIntervalReturned
    /\ a_args = << <<(<<0, 1>>), (<<3, 4>>)>>, <<1, 3>> >>
    /\ a_result = <<(<<0, 4>>)>>

\* C30: insert_interval leaves both of its arguments unchanged: neither the
\* list of intervals nor the new-interval value passed by the caller is
\* modified by the call.
C30_InsertIntervalIsPure ==
    InsertIntervalReturned => a_after = a_args

\* What the call does leave alone: the list of intervals, always, and the new
\* interval when it already spans every interval it is merged with.
C30_ListUnchanged ==
    InsertIntervalReturned =>
        /\ a_after[1] = a_args[1]
        /\ (\A i \in 1..Len(a_args[1]) :
               a_args[1][i][2] < a_args[2][1] \/ a_args[2][2] < a_args[1][i][1])
              => a_after[2] = a_args[2]

\* A partition of the tasks, in their order, into contiguous groups is given
\* by the set of positions after which a cut is made.
Cuts(tasks) == SUBSET (1..(Len(tasks) - 1))

\* The sums of the groups of the partition with the cuts C.
GroupSums(tasks, C) ==
    LET ends == C \cup {Len(tasks)}
        starts == {1} \cup {c + 1 : c \in C}
        EndOf(s) == CHOOSE e \in ends : e >= s /\ \A x \in ends : x >= s => e <= x
    IN  {SumSeq(SubSeq(tasks, s, EndOf(s))) : s \in starts}

MaxOf(S) == CHOOSE x \in S : \A y \in S : y <= x
MinOf(S) == CHOOSE x \in S : \A y \in S : x <= y

\* The least largest group sum over the partitions into at most N groups.
MinMaxPartition(tasks, N) ==
    MinOf({MaxOf(GroupSums(tasks, C)) : C \in {D \in Cuts(tasks) : Cardinality(D) <= N - 1}})

\* The greatest smallest group sum over the partitions into exactly N groups.
MaxMinPartition(tasks, N) ==
    MaxOf({MinOf(GroupSums(tasks, C)) : C \in {D \in Cuts(tasks) : Cardinality(D) = N - 1}})

MaxRunningTimeReturned == a_fn = "max_running_time" /\ a_pc = "returned"

\* C27: for a non-empty list of positive durations and N >= 1,
\* max_running_time returns the smallest mid in [max(tasks), sum(tasks)] for
\* which can_assign(mid) succeeds, which is the minimum over the partitions
\* into at most N contiguous groups of the largest group sum; it returns 0
\* for an empty list and max(tasks) when N >= len(tasks).
C27_SmallestFeasibleMid ==
    MaxRunningTimeReturned =>
        LET tasks == a_args[1]
            N == a_args[2]
        IN  /\ tasks = <<>> => a_result = 0
            /\ tasks # <<>> =>
                  /\ a_result \in MaxSeq(tasks)..SumSeq(tasks)
                  /\ can_assign(tasks, N, a_result)
                  /\ \A mid \in MaxSeq(tasks)..(a_result - 1) : ~can_assign(tasks, N, mid)
                  /\ a_result = MinMaxPartition(tasks, N)
                  /\ N >= Len(tasks) => a_result = MaxSeq(tasks)

C27_Witness ==
    /\ MaxRunningTimeReturned
    /\ a_args = <<(<<1, 2, 3>>), 2>>
    /\ a_result = 3

\* C28: max_running_time(tasks, N) returns the maximum, over the partitions
\* of the tasks into N contiguous segments, of the minimum segment sum, for
\* positive durations and 1 <= N <= len(tasks).
C28_MaximizesMinimumSegment ==
    (MaxRunningTimeReturned /\ a_args[2] <= Len(a_args[1])) =>
        a_result = MaxMinPartition(a_args[1], a_args[2])

\* The sorted merge of two sorted arrays.
RECURSIVE Merge(_, _)
Merge(s, t) ==
    IF s = <<>> THEN t
    ELSE IF t = <<>> THEN s
    ELSE IF Head(s) <= Head(t) THEN <<Head(s)>> \o Merge(Tail(s), t)
    ELSE <<Head(t)>> \o Merge(s, Tail(t))

\* Twice the median of a non-empty sorted array.
TwiceMedian(s) ==
    IF Len(s) % 2 = 1 THEN 2 * s[(Len(s) + 1) \div 2]
    ELSE s[Len(s) \div 2] + s[Len(s) \div 2 + 1]

\* Twice the number that a returned pair stands for.
Twice(r) == IF r[2] = 1 THEN 2 * r[1] ELSE r[1]

FindMedianCalled == a_fn = "find_median_sorted_arrays" /\ a_pc # "called"

C29_WitnessBothEmpty ==
    /\ FindMedianCalled
    /\ a_args = <<(<<>>), (<<>>)>>
    /\ a_pc = "raised"

\* The lengths m and n of the arrays as the loop uses them.
LoopLengths(nums1, nums2) ==
    <<Len(shorter_first(nums1, nums2)[1]), Len(shorter_first(nums1, nums2)[2])>>

\* C40: for two sorted arrays that are not both empty the binary search of
\* find_median_sorted_arrays returns from inside its loop, keeps
\* 0 <= i <= m and 0 <= j <= n, and reads every element at an index in
\* 0..len-1 (never -1, never len).
C40_SearchStaysInBounds ==
    (FindMedianCalled /\ ~(a_args[1] = <<>> /\ a_args[2] = <<>>)) =>
        LET passes == search_passes(a_args[1], a_args[2])
            len == LoopLengths(a_args[1], a_args[2])
        IN  /\ a_pc = "returned"
            /\ a_result # None
            /\ Last(passes).branch = "return"
            /\ \A k \in 1..Len(passes) :
                  /\ 0 <= passes[k].i /\ passes[k].i <= len[1]
                  /\ 0 <= passes[k].j /\ passes[k].j <= len[2]
                  /\ \A r \in passes[k].reads : 0 <= r[2] /\ r[2] < len[r[1]]

\* A call that had to exchange its arguments and whose search moved left
\* before it returned.
C40_Witness ==
    /\ FindMedianCalled
    /\ a_pc = "returned"
    /\ Len(a_args[1]) > Len(a_args[2])
    /\ LET passes == search_passes(a_args[1], a_args[2])
       IN  /\ Len(passes) >= 2
           /\ \E k \in 1..Len(passes) : passes[k].branch = "left"
           /\ Last(passes).branch = "return"
           /\ Last(passes).reads # {}

ExtractionReturned ==
    a_fn \in {"extract_code_block", "extract_code_block_minimal"} /\ a_pc = "returned"

\* The first fenced segment of a reply, trimmed, with a leading language tag
\* (in either case) removed and the rest trimmed.
FirstFencedSegment(reply) ==
    LET segment == Strip(SecondPart(reply))
    IN  IF segment # <<>> /\ segment[1] \in {"PY", "PYU"} THEN Strip(Tail(segment))
        ELSE segment

\* C38: extract_code_block of the minimal pipeline and of the improved
\* pipeline return the same string for every reply: the trimmed input when
\* it has no fence, otherwise the first fenced segment without a leading
\* language tag.
C38_ExtractionIsShared ==
    ExtractionReturned =>
        /\ a_result = extract_code_block(a_args[1])
        /\ a_result = extract_code_block_minimal(a_args[1])
        /\ a_result = (IF HasFence(a_args[1]) THEN FirstFencedSegment(a_args[1])
                       ELSE Strip(a_args[1]))

\* The improved extraction alone does what the sentence says.
C38_ImprovedExtractionAsDescribed ==
    (ExtractionReturned /\ a_fn = "extract_code_block") =>
        a_result = (IF HasFence(a_args[1]) THEN FirstFencedSegment(a_args[1])
                    ELSE Strip(a_args[1]))

\* The two extractions agree on replies whose fenced part needs no second
\* trimming and has no upper-case tag, and on unfenced replies without
\* surrounding whitespace.
C38_AgreeOnPlainReplies ==
    (ExtractionReturned /\ a_args[1] = Strip(a_args[1])
       /\ (HasFence(a_args[1]) =>
              LET segment == Strip(SecondPart(a_args[1]))
              IN  \/ segment = <<>>
                  \/ /\ segment[1] # "PYU"
                     /\ segment[1] = "PY" => Tail(segment) = Strip(Tail(segment)))) =>
        extract_code_block(a_args[1]) = extract_code_block_minimal(a_args[1])

\* The request of the step that raised, sent again against the cache as it
\* is now: whatever the service answers, it is asked at least once.
FailedRequestAsksAgain ==
    \A rl \in RateLimitChoices, kind \in {"ok", "err"}, content \in Replies :
        LET again == generate_response(q_cache, q_messages, StepOptions(q_step + 1), TRUE,
                                       platform, rl, kind, content)
        IN  again.calls >= 1 /\ again.reads = 1

\* C39: a generate_response call with a cache directory that ends by raising
\* (rate-limit retries exhausted or another completion error) creates no
\* cache entry and changes none, and the same request sent later misses the
\* cache and contacts the completion service again.
C39_FailedCallLeavesCacheAlone ==
    /\ [][(q_pc = "step" /\ q_pc' = "raised") => q_cache' = q_cache]_vars
    /\ []((q_pc = "raised" /\ q_cache_enabled) => FailedRequestAsksAgain)

\* The third step of a second, cached run fails after earlier steps wrote
\* their replies to the cache.
C39_Witness ==
    /\ q_pc = "raised"
    /\ q_cache_enabled
    /\ q_run = 2
    /\ q_step = 2
    /\ q_cache # <<>>
    /\ q_calls >= DEFAULT_RETRIES

NativeLoop == variant \in {"native", "native2"}

ReportedKind(ev) == \E i \in 1..Len(output) : output[i].ev = ev

\* C31: in the improved native loops "maximum iterations reached" is
\* reported only by runs that reached the cap without terminating: a run
\* ended by terminate, by a response without tool call or by a model-call
\* error, on any iteration, never reports it.
C31_ExhaustedExcludesOtherEndings ==
    (NativeLoop /\ ReportedKind("exhausted")) =>
        /\ ~ReportedKind("completed")
        /\ ~ReportedKind("response")
        /\ ~ReportedKind("llm_error")

\* The two reports exclude each other in the runs that leave the loop by
\* break before the last allowed iteration.
C31_ExclusiveBeforeLastIteration ==
    (NativeLoop /\ iteration < max_iterations) => ~ReportedKind("exhausted")

\* Exhaustion is reported by every finished run whose counter reached the
\* cap, whatever ended it.
C31_ExhaustedIffCounterAtCap ==
    (NativeLoop /\ lpc = "done") => (ReportedKind("exhausted") <=> iteration >= max_iterations)

\* The number of (assistant, user) pairs in the memory of an improved loop.
Pairs(mem) == (Len(mem) - 2) \div 2

\* The pair that the j-th response left in the memory.
PairOf(v, resp) ==
    LET result == execute_tool_native(v, resp.name, resp.args)
    IN  <<ActionMsg(resp.name, resp.args), ResultMsg("user", result.kind, result.value)>>

\* The memory is the system message, the task, then one pair per response
\* that went on, in the order of the responses; request i carried the memory
\* as it was then.
MemoryIsChronological ==
    /\ Len(memory) >= 2
    /\ Len(memory) % 2 = 0
    /\ memory[1] = SystemMsg
    /\ memory[2] = TaskMsg
    /\ Pairs(memory) <= Len(responses)
    /\ \A j \in 1..Pairs(memory) :
          /\ SubSeq(memory, 2 * j + 1, 2 * j + 2) = PairOf(variant, responses[j])
          /\ memory[2 * j + 1].role = "assistant"
          /\ memory[2 * j + 2].role = "user"
    /\ Len(sent) = requests
    /\ \A i \in 1..Len(sent) : sent[i] = SubSeq(memory, 1, 2 * i)

\* A pass that executed a tool call other than terminate.
ExecutedToolCall ==
    /\ requests' = requests + 1
    /\ lpc' # "crashed"
    /\ Last(responses').kind = "tool_call"
    /\ Last(responses').name # "terminate"

\* One step keeps the memory it had as a prefix and appends one pair or
\* nothing; it appends one pair when a tool call other than terminate ran.
MemoryOnlyGrows ==
    /\ Len(memory') >= Len(memory)
    /\ SubSeq(memory', 1, Len(memory)) = memory
    /\ Len(memory') - Len(memory) \in {0, 2}
    /\ ExecutedToolCall => Len(memory') = Len(memory) + 2
    /\ requests' = requests + 1 => Last(sent') = memory

\* C32: in the improved native loop the memory always is the system message,
\* the task, then (assistant, user) pairs in chronological order; a pass
\* that executes a non-terminate tool call appends exactly one pair, nothing
\* earlier is removed, changed or reordered, and the messages sent to the
\* model are exactly the memory.
C32_MemoryIsAppendOnlyPairs ==
    /\ [](variant = "native" => MemoryIsChronological)
    /\ [][variant = "native" => MemoryOnlyGrows]_vars

\* The second request of a run carried the first pair, and the second pass
\* appended another.
C32_Witness ==
    /\ variant = "native"
    /\ Len(memory) = 6
    /\ Len(sent) = 2
    /\ sent[2] = SubSeq(memory, 1, 4)
    /\ memory[4].kind = "error"
    /\ memory[6].kind = "result"

ExecuteActionCalled == a_fn = "execute_action" /\ a_pc # "called"

HasInvalidArgumentsPrefix(result) ==
    result.error # <<>> /\ result.error[1] = "Invalid arguments"

\* C34: Environment.execute_action never lets an exception of the action
\* escape; a failure gives tool_executed false, with the "Invalid arguments"
\* prefix exactly when the arguments do not fit the handler's parameters and
\* not for an exception raised inside the handler body; a success gives
\* tool_executed true with the raw return value.
C34_PrefixExactlyForArgumentShape ==
    ExecuteActionCalled =>
        LET action == a_args[1]
            args == a_args[2]
            succeeds == Binds(action, args) /\ action.body = "returns"
        IN  /\ a_pc = "returned"
            /\ a_result.tool_executed = succeeds
            /\ succeeds => a_result.result = <<"value", action.params>>
            /\ HasInvalidArgumentsPrefix(a_result) <=> ~Binds(action, args)

\* Nothing escapes, success and failure are told apart, and the prefix is
\* there exactly when the exception is a TypeError, wherever it was raised.
C34_PrefixExactlyForTypeError ==
    ExecuteActionCalled =>
        LET action == a_args[1]
            args == a_args[2]
            succeeds == Binds(action, args) /\ action.body = "returns"
        IN  /\ a_pc = "returned"
            /\ a_result.tool_executed = succeeds
            /\ succeeds => a_result.result = <<"value", action.params>>
            /\ HasInvalidArgumentsPrefix(a_result) <=>
                  (~Binds(action, args) \/ action.body = "raises_TypeError")

\* The responses that reach parse_response as a string: every response but
\* a failed completion, undecodable tool-call arguments and an answer
\* without content.
IsResponseString(resp) ==
    /\ resp.kind \notin {"llm_error", "no_content"}
    /\ ~(resp.kind = "tool_call" /\ resp.args.shape = "badjson")

\* A dictionary with the keys 'tool' and 'args'.
IsInvocation(value) == value.kind = "tool_call"

\* C35: for every response string parse_response of the function-calling
\* language returns a dictionary with the keys 'tool' and 'args', so
\* Agent.get_action and Agent.run never raise because of the shape of a
\* response.
C35_EveryResponseParsesToInvocation ==
    (variant = "game" /\ responses # <<>> /\ IsResponseString(Last(responses))) =>
        /\ IsInvocation(parse_response(Last(responses)))
        /\ crash = "none"

\* Text that is not JSON, and the objects that generate_response serialises
\* from a tool call, parse to an invocation and do not make run raise.
C35_TextAndToolCallsParse ==
    (variant = "game" /\ responses # <<>> /\ IsResponseString(Last(responses))
        /\ Last(responses).kind \in {"text", "tool_call"}) =>
        /\ IsInvocation(parse_response(Last(responses)))
        /\ crash = "none"

\* The response names a registered action that is not terminal.
ResolvesToNonTerminal(resp) ==
    /\ resp.kind \in {"tool_call", "json_no_args"}
    /\ resp.args.shape # "badjson"
    /\ resp.name \in Registry("game")
    /\ ~Terminal(resp.name)

\* The memory is the task followed by an assistant and an environment item
\* per completed iteration.
TaskPlusTwoPerIteration(n) ==
    /\ Len(memory) = 1 + 2 * n
    /\ memory[1] = TaskMsg
    /\ \A j \in 1..n :
          memory[2 * j].role = "assistant" /\ memory[2 * j + 1].role = "environment"

\* C33: Agent.run calls the response-generation function at most
\* max_iterations times and always returns; when every response resolves to
\* a registered non-terminal action it stops after exactly max_iterations
\* iterations with the task plus two items per completed iteration in
\* memory.
C33_RunReturnsWithinCap ==
    variant = "game" =>
        /\ requests <= max_iterations
        /\ lpc # "crashed"
        /\ (lpc \in {"after", "done"}
              /\ \A i \in 1..Len(responses) : ResolvesToNonTerminal(responses[i])) =>
                 /\ requests = max_iterations
                 /\ iteration = max_iterations
                 /\ TaskPlusTwoPerIteration(max_iterations)

\* The bound on the calls holds in every run, and the run of
\* max_iterations iterations when every response is an object with both
\* keys naming a registered non-terminal action.
C33_BoundedCalls ==
    variant = "game" =>
        /\ requests <= max_iterations
        /\ iteration <= max_iterations
        /\ (lpc \in {"after", "done"}
              /\ \A i \in 1..Len(responses) :
                    ResolvesToNonTerminal(responses[i]) /\ responses[i].kind = "tool_call") =>
                 /\ requests = max_iterations
                 /\ iteration = max_iterations
                 /\ TaskPlusTwoPerIteration(max_iterations)

\* A dictionary with the keys 'tool_name' and 'args'.
IsActionDict(value) == value.kind = "tool_call"

\* C36: parse_action returns, for every response text, a dictionary with
\* both keys 'tool_name' and 'args', and never raises, so run_agent of the
\* markdown loop never fails while reading action['tool_name'] and
\* action['args'].
C36_ParseActionGivesActionDict ==
    (variant = "markdown" /\ responses # <<>> /\ Last(responses).kind # "llm_error") =>
        /\ IsActionDict(parse_action(Last(responses)))
        /\ crash # "TypeError"

\* The same for every response other than a JSON string (or array) that
\* holds the two words.
C36_ExceptJsonStrings ==
    (variant = "markdown" /\ responses # <<>>
        /\ Last(responses).kind \notin {"llm_error", "json_string"}) =>
        /\ IsActionDict(parse_action(Last(responses)))
        /\ crash # "TypeError"

AgentRunReturned == a_fn = "Agent.run" /\ a_pc = "returned"

\* C37: a Memory object passed to Agent.run, of any length, is the object
\* the run seeds with the task, appends its items to and returns; a new
\* Memory is created only when none is passed.
C37_PassedMemoryIsUsed ==
    AgentRunReturned =>
        LET passed == a_args[1]
            callers == a_after[1]
        IN  IF IsNone(passed) THEN a_result.id = "run"
            ELSE /\ a_result.id = "caller"
                 /\ Val(callers) = a_result
                 /\ a_result.items = Val(passed).items \o RunItems(a_args[2])

\* The same for the passed memories that hold at least one item; an empty
\* one is left as it was and a new object is returned.
C37_NonEmptyPassedMemoryIsUsed ==
    AgentRunReturned =>
        LET passed == a_args[1]
            callers == a_after[1]
        IN  IF IsNone(passed) THEN a_result.id = "run"
            ELSE IF Val(passed).items = <<>>
            THEN /\ a_result.id = "run"
                 /\ callers = passed
                 /\ a_result.items = RunItems(a_args[2])
            ELSE /\ a_result.id = "caller"
                 /\ Val(callers) = a_result
                 /\ a_result.items = Val(passed).items \o RunItems(a_args[2])

====
